---- MODULE Spec2Model ----
(***************************************************************************)
(* A model of the honest regression tree of Rforestry: tree growth by     *)
(* recursive partitioning (forestryTree.cpp), the out-of-bag index         *)
(* computations, and the flattening / reconstruction of a grown tree.      *)
(*                                                                         *)
(* Numbers.  Feature values are even naturals, so that the midpoint of two *)
(* adjacent values is an integer.  A missing value is NaN; the comparisons *)
(* Lt and Eq are those of IEEE doubles (false whenever an operand is NaN). *)
(* Means, ridge coefficients and losses are exact rationals <<num, den>>   *)
(* with den > 0, kept in lowest terms.                                     *)
(***************************************************************************)
EXTENDS Integers, Sequences, FiniteSets, TLC

\* ---------------------------------------------------------------- bounds

\* Rows of the training data.
NumRows == 4

\* Largest maxDepth a tree is constructed with.
MaxDepthBound == 2

\* ------------------------------------------------------------- arithmetic

\* The value std::isnan recognises.
NaN == -1

isnan(v) == v = NaN

\* v < w on doubles.
Lt(v, w) == ~isnan(v) /\ ~isnan(w) /\ v < w

\* v == w on doubles.
Eq(v, w) == ~isnan(v) /\ ~isnan(w) /\ v = w

Abs(i) == IF i < 0 THEN -i ELSE i

RECURSIVE Gcd(_, _)
Gcd(a, b) == IF b = 0 THEN a ELSE Gcd(b, a % b)

\* The rational n/d (d # 0) in lowest terms with a positive denominator.
Rat(n, d) ==
  LET g == Gcd(Abs(n), Abs(d))
      s == IF d < 0 THEN -1 ELSE 1
  IN  <<(s * n) \div g, (s * d) \div g>>

RInt(i) == <<i, 1>>
RAdd(p, q) == Rat(p[1] * q[2] + q[1] * p[2], p[2] * q[2])
RSub(p, q) == Rat(p[1] * q[2] - q[1] * p[2], p[2] * q[2])
RMul(p, q) == Rat(p[1] * q[1], p[2] * q[2])
RLt(p, q) == p[1] * q[2] < q[1] * p[2]

\* ------------------------------------------------------------- sequences

Range(s) == {s[i] : i \in 1..Len(s)}

Count(s, e) == Cardinality({i \in 1..Len(s) : s[i] = e})

\* The elements of the finite set of integers S in ascending order.
RECURSIVE Ascending(_)
Ascending(S) ==
  IF S = {} THEN <<>>
  ELSE LET m == CHOOSE x \in S : \A z \in S : x <= z
       IN  <<m>> \o Ascending(S \ {m})

\* A sort left out: the vector as it was.
sortKept(s) == s

\* std::sort on a vector of indices.
sort(s) ==
  LET RECURSIVE Rep(_, _)
      Rep(e, k) == IF k = 0 THEN <<>> ELSE <<e>> \o Rep(e, k - 1)
      RECURSIVE Cat(_)
      Cat(vals) == IF vals = <<>> THEN <<>>
                   ELSE Rep(Head(vals), Count(s, Head(vals))) \o Cat(Tail(vals))
  IN  Cat(Ascending(Range(s)))

\* ---------------------------------------------------------- training data

Rows == 0..(NumRows - 1)

\* Feature columns: column 0 is numeric, column 1 is categorical.
Features == {0, 1}

\* The rows 0 .. NumRows-1 in order (std::iota).
AllRows == [i \in 1..NumRows |-> i - 1]

\* Column patterns the training data is drawn from.
NumericColumn(pattern, r) ==
  IF pattern = "asc" THEN 2 * (r + 1) ELSE 2 * ((r \div 2) + 1)

CategoricalColumn(r) == 2 * ((r % 2) + 1)

OutcomeColumn(pattern, r) == IF pattern = "asc" THEN 2 * r ELSE 2

PatternMenu ==
  { [x |-> "asc", y |-> "asc"], [x |-> "pair", y |-> "asc"],
    [x |-> "pair", y |-> "const"] }

\* Sampling weights of the features, at depth < interactionDepth and below.
FeatureWeightMenu ==
  { [featureWeights |-> <<1, 1>>, featureWeightsVariables |-> <<0, 1>>,
     deepFeatureWeights |-> <<1, 1>>, deepFeatureWeightsVariables |-> <<0, 1>>],
    [featureWeights |-> <<>>, featureWeightsVariables |-> <<0, 1>>,
     deepFeatureWeights |-> <<1, 3>>, deepFeatureWeightsVariables |-> <<0, 1>>] }

\* The group of every row (DataFrame::getGroups): 0 on data without groups.
NoGroups == [r \in Rows |-> 0]

\* The DataFrame objects a tree is grown on.  x[f][r] is getPoint(r, f),
\* y[r] is getOutcomePoint(r), linObs[r] is getLinObsData(r).
DataFrames ==
  { [x |-> [f \in Features |-> [r \in Rows |->
              IF f = 0
              THEN (IF r \in na0 THEN NaN ELSE NumericColumn(pt.x, r))
              ELSE (IF r \in na1 THEN NaN ELSE CategoricalColumn(r))]],
     y |-> [r \in Rows |-> OutcomeColumn(pt.y, r)],
     linObs |-> [r \in Rows |-> <<r>>],
     catCols |-> {1},
     groups |-> NoGroups,
     monotonicConstraints |-> [f \in Features |-> 0],
     monotoneAvg |-> FALSE,
     featureWeights |-> w.featureWeights,
     featureWeightsVariables |-> w.featureWeightsVariables,
     deepFeatureWeights |-> w.deepFeatureWeights,
     deepFeatureWeightsVariables |-> w.deepFeatureWeightsVariables]
    : pt \in PatternMenu, na0 \in {{}, {0}}, na1 \in {{}, {1}},
      w \in FeatureWeightMenu }

HasMissing(df) == \E f \in Features, r \in Rows : isnan(df.x[f][r])

getNumColumns(df) == Cardinality(DOMAIN df.x)

\* DataFrame::partitionMean: the arithmetic mean of the outcomes over the
\* indices (0/0 for an empty vector is reported as NaN).
RECURSIVE OutcomeSum(_, _)
OutcomeSum(df, idx) ==
  IF idx = <<>> THEN 0 ELSE df.y[Head(idx)] + OutcomeSum(df, Tail(idx))

partitionMean(df, idx) ==
  IF idx = <<>> THEN <<NaN, 1>> ELSE Rat(OutcomeSum(df, idx), Len(idx))

\* The numeric columns in ascending order (DataFrame::getNumCols).
getNumCols(df) == Ascending(DOMAIN df.x \ df.catCols)

\* ------------------------------------------------------ random generator

\* The states of a std::mt19937_64, abstracted to a full-period congruential
\* generator; a draw returns the state and advances it.
RngStates == 0..7

RngNext(g) == (5 * g + 3) % Cardinality(RngStates)

\* random_number_generator.seed(s).
RngSeed(s) == s % Cardinality(RngStates)

RECURSIVE SeqSum(_)
SeqSum(w) == IF w = <<>> THEN 0 ELSE Head(w) + SeqSum(Tail(w))

\* std::discrete_distribution over the weights w, drawn with generator
\* state g: the 0-based index whose weight interval holds g / |RngStates|.
discrete_distribution(w, g) ==
  LET total == SeqSum(w)
      Cum(i) == SeqSum(SubSeq(w, 1, i))
  IN  (CHOOSE i \in 1..Len(w) :
         /\ g * total < Cardinality(RngStates) * Cum(i)
         /\ \A j \in 1..(i - 1) : ~(g * total < Cardinality(RngStates) * Cum(j))) - 1

\* ------------------------------------------------------- feature sampling

\* The rejection loop of sampleFeatures: draw until mtry distinct features.
\* rejected counts the draws rejected since the list last grew; once the
\* generator has been through all its states without the list growing, the
\* loop is where it was before and never ends.
RECURSIVE sampleLoop(_, _, _, _, _, _, _)
sampleLoop(mtry, g, numFeaturesOnly, numCols, weights, featureList, rejected) ==
  IF Len(featureList) >= mtry
  THEN [featureList |-> featureList, rng |-> g, endless |-> FALSE]
  ELSE IF rejected = Cardinality(RngStates)
  THEN [featureList |-> featureList, rng |-> g, endless |-> TRUE]
  ELSE LET index == discrete_distribution(weights, g)
           picked == IF numFeaturesOnly THEN numCols[index + 1] ELSE index
       IN  IF picked \in Range(featureList)
           THEN sampleLoop(mtry, RngNext(g), numFeaturesOnly, numCols, weights,
                           featureList, rejected + 1)
           ELSE sampleLoop(mtry, RngNext(g), numFeaturesOnly, numCols, weights,
                           Append(featureList, picked), 0)

\* sampleFeatures: the feature list and the generator state afterwards, or
\* endless if the call does not return.
sampleFeatures(mtry, g, numFeaturesOnly, numCols, weights, sampledFeatures) ==
  IF Len(weights) = 0
  THEN [featureList |-> sampledFeatures, rng |-> g, endless |-> FALSE]
  ELSE sampleLoop(mtry, g, numFeaturesOnly, numCols, weights, <<>>, 0)

\* ----------------------------------------------------------- partitioning

\* The side test with the comparison of a numeric feature on every feature.
goesLeftByOrder(value, splitValue, categoical) == Lt(value, splitValue)

\* The side test of splitDataIntoTwoParts on one present feature value.
goesLeft(value, splitValue, categoical) ==
  IF categoical THEN Eq(value, splitValue) ELSE Lt(value, splitValue)

\* splitDataIntoTwoParts: the two partitions of sampleIndex and what the call
\* adds to its two NA counters.
splitDataIntoTwoParts(df, sampleIndex, splitFeature, splitValue, naBestDirection, categoical, hasNas) ==
  LET Value(i) == df.x[splitFeature][i]
  IN  IF hasNas
      THEN LET naIndices == SelectSeq(sampleIndex, LAMBDA i : isnan(Value(i)))
               left == SelectSeq(sampleIndex, LAMBDA i :
                         ~isnan(Value(i)) /\ goesLeft(Value(i), splitValue, categoical))
               right == SelectSeq(sampleIndex, LAMBDA i :
                         ~isnan(Value(i)) /\ ~goesLeft(Value(i), splitValue, categoical))
           IN  [left |-> IF naBestDirection = -1 THEN left \o naIndices ELSE left,
                right |-> IF naBestDirection = 1 THEN right \o naIndices ELSE right,
                naLeftCount |-> IF naBestDirection = -1 THEN Len(naIndices) ELSE 0,
                naRightCount |-> IF naBestDirection = 1 THEN Len(naIndices) ELSE 0]
      ELSE [left |-> SelectSeq(sampleIndex, LAMBDA i :
                       goesLeft(Value(i), splitValue, categoical)),
            right |-> SelectSeq(sampleIndex, LAMBDA i :
                       ~goesLeft(Value(i), splitValue, categoical)),
            naLeftCount |-> 0,
            naRightCount |-> 0]

\* splitData: both index vectors are split; the NA counters that are kept
\* are those of the splitting vector.
splitData(df, averagingSampleIndex, splittingSampleIndex, splitFeature, splitValue, naBestDirection, categoical, hasNas) ==
  LET a == splitDataIntoTwoParts(df, averagingSampleIndex, splitFeature,
                                 splitValue, naBestDirection, categoical, hasNas)
      s == splitDataIntoTwoParts(df, splittingSampleIndex, splitFeature,
                                 splitValue, naBestDirection, categoical, hasNas)
  IN  [averagingLeftPartitionIndex |-> a.left,
       averagingRightPartitionIndex |-> a.right,
       splittingLeftPartitionIndex |-> s.left,
       splittingRightPartitionIndex |-> s.right,
       naLeftCount |-> s.naLeftCount,
       naRightCount |-> s.naRightCount]

\* ------------------------------------------------------------ ridge model

\* The ridge sufficient statistics of the observations idx for the single
\* linear feature l = linObs[1]: the entries of G = sum [l,1][l,1]^T and of
\* s = sum y [l,1], and y^T y.
RECURSIVE RidgeSums(_, _)
RidgeSums(df, idx) ==
  IF idx = <<>> THEN [n |-> 0, l |-> 0, ll |-> 0, yl |-> 0, y |-> 0, yy |-> 0]
  ELSE LET r == Head(idx)
           t == RidgeSums(df, Tail(idx))
           lv == df.linObs[r][1]
       IN  [n |-> t.n + 1, l |-> t.l + lv, ll |-> t.ll + lv * lv,
            yl |-> t.yl + df.y[r] * lv, y |-> t.y + df.y[r],
            yy |-> t.yy + df.y[r] * df.y[r]]

\* det(G + lambda I'), where I' is the identity with a zero in the
\* intercept position.
RidgeDet(t, lambda) == (t.ll + lambda) * t.n - t.l * t.l

\* beta = (G + lambda I')^-1 s from the statistics t, as <<slope, intercept>>.
BetaOf(t, lambda) ==
  <<Rat(t.n * t.yl - t.l * t.y, RidgeDet(t, lambda)),
    Rat((t.ll + lambda) * t.y - t.l * t.yl, RidgeDet(t, lambda))>>

RidgeBeta(df, idx, lambda) == BetaOf(RidgeSums(df, idx), lambda)

\* y^T y - s^T (G + lambda I')^-1 s from the statistics t.
RSSOf(t, lambda) ==
  RSub(RInt(t.yy),
       Rat(t.yl * t.yl * t.n - 2 * t.yl * t.y * t.l
             + t.y * t.y * (t.ll + lambda), RidgeDet(t, lambda)))

\* calculateRSS on the observations idx.
calculateRSS(df, idx, lambda) == RSSOf(RidgeSums(df, idx), lambda)

\* --------------------------------------------------- split-search kernels

\* The kernel selectBestFeature runs on a feature.
kernelFor(categorical, linear, hasNas) ==
  IF categorical
  THEN IF linear THEN "findBestSplitRidgeCategorical"
       ELSE IF hasNas THEN "findBestSplitImputeCategorical"
       ELSE "findBestSplitValueCategorical"
  ELSE IF linear THEN "findBestSplitRidge"
       ELSE IF hasNas THEN "findBestSplitImpute"
       ELSE "findBestSplitValueNonCategorical"

IsRidgeKernel(k) == k \in {"findBestSplitRidgeCategorical", "findBestSplitRidge"}

IsImputeKernel(k) == k \in {"findBestSplitImputeCategorical", "findBestSplitImpute"}

\* The candidate split values of feature f on the splitting set: the levels
\* present (categorical), or the midpoints of adjacent distinct values.
Candidates(df, splittingSampleIndex, f) ==
  LET present == {df.x[f][splittingSampleIndex[i]] :
                    i \in 1..Len(splittingSampleIndex)} \ {NaN}
      asc == Ascending(present)
  IN  IF f \in df.catCols THEN asc
      ELSE [i \in 1..(Len(asc) - 1) |-> (asc[i] + asc[i + 1]) \div 2]

\* The observations of idx a kernel counts on the left of candidate value v
\* when the missing ones are sent in direction naDir (0: compared as they are).
KernelLeft(df, idx, f, v, naDir) ==
  SelectSeq(idx, LAMBDA i :
    IF isnan(df.x[f][i]) THEN naDir = -1
    ELSE IF f \in df.catCols THEN Eq(df.x[f][i], v) ELSE Lt(df.x[f][i], v))

KernelRight(df, idx, f, v, naDir) ==
  SelectSeq(idx, LAMBDA i :
    IF isnan(df.x[f][i]) THEN naDir # -1
    ELSE ~(IF f \in df.catCols THEN Eq(df.x[f][i], v) ELSE Lt(df.x[f][i], v)))

\* nL yL^2 + nR yR^2 - n y^2 from the outcome sums and sizes of the sides.
CartScoreOf(sumL, nL, sumR, nR) ==
  RSub(RAdd(Rat(sumL * sumL, nL), Rat(sumR * sumR, nR)),
       Rat((sumL + sumR) * (sumL + sumR), nL + nR))

CartScore(df, left, right) ==
  CartScoreOf(OutcomeSum(df, left), Len(left), OutcomeSum(df, right), Len(right))

\* The ridge kernels minimise RSS(left) + RSS(right).
RidgeScore(df, left, right, lambda) ==
  RSub(RInt(0), RAdd(calculateRSS(df, left, lambda), calculateRSS(df, right, lambda)))

\* Whether a kernel admits the candidate with these sides of the splitting
\* set (sl, sr) and of the averaging set (al, ar).
Admissible(k, df, cfg, sl, sr, al, ar) ==
  /\ Len(sl) >= cfg.minNodeSizeToSplitSpt
  /\ Len(sr) >= cfg.minNodeSizeToSplitSpt
  /\ Len(al) >= cfg.minNodeSizeToSplitAvg
  /\ Len(ar) >= cfg.minNodeSizeToSplitAvg
  /\ (IsRidgeKernel(k) =>
        /\ Len(sl) >= Len(df.linObs[0]) + 1
        /\ Len(sr) >= Len(df.linObs[0]) + 1)

\* std::numeric_limits<double>::max(), above every mean of the outcomes.
DoubleMax == 1000000

RLe(a, b) == ~RLt(b, a)

\* Whether the tree is grown under monotone constraints.
monotone_splits(df) == \E f \in DOMAIN df.monotonicConstraints : df.monotonicConstraints[f] # 0

\* Whether the means of the two sides of a cut on feature f keep the
\* constraint of f and lie within the bounds handed down to the node.
acceptMonotoneSplit(df, cfg, f, leftMean, rightMean) ==
  /\ RLe(cfg.lower_bound, leftMean) /\ RLe(leftMean, cfg.upper_bound)
  /\ RLe(cfg.lower_bound, rightMean) /\ RLe(rightMean, cfg.upper_bound)
  /\ df.monotonicConstraints[f] = 1 => RLe(leftMean, rightMean)
  /\ df.monotonicConstraints[f] = -1 => RLe(rightMean, leftMean)

\* The kernels selectBestFeature hands monotone_details to.
IsMonotoneKernel(k) == k \in {"findBestSplitImpute", "findBestSplitValueNonCategorical"}

\* The monotone test of a kernel on a cut: on the means of the splitting
\* sides, and on those of the averaging sides if monotoneAvg.
MonotoneAdmissible(k, df, cfg, f, sl, sr, al, ar) ==
  (IsMonotoneKernel(k) /\ monotone_splits(df)) =>
    /\ acceptMonotoneSplit(df, cfg, f, partitionMean(df, sl), partitionMean(df, sr))
    /\ df.monotoneAvg =>
         acceptMonotoneSplit(df, cfg, f, partitionMean(df, al), partitionMean(df, ar))

Scored(k, df, cfg, v, naDir, sl, sr, ok) ==
  [ok |-> ok,
   value |-> v,
   naDir |-> naDir,
   score |-> IF ~ok THEN RInt(0)
             ELSE IF IsRidgeKernel(k) THEN RidgeScore(df, sl, sr, cfg.overfitPenalty)
             ELSE CartScore(df, sl, sr)]

CandidateOf(k, df, cfg, f, v, naDir, sl, sr, al, ar) ==
  Scored(k, df, cfg, v, naDir, sl, sr,
         Admissible(k, df, cfg, sl, sr, al, ar)
           /\ MonotoneAdmissible(k, df, cfg, f, sl, sr, al, ar))

\* One candidate of a kernel: whether it is admissible, and its score.
Candidate(k, df, cfg, avg, spt, f, v, naDir) ==
  CandidateOf(k, df, cfg, f, v, naDir,
              KernelLeft(df, spt, f, v, naDir), KernelRight(df, spt, f, v, naDir),
              KernelLeft(df, avg, f, v, naDir), KernelRight(df, avg, f, v, naDir))

\* The better of a candidate with the missing values sent left (cl) and
\* the same candidate with them sent right (cr).
BetterDirection(cl, cr) ==
  IF cr.ok /\ (~cl.ok \/ RLt(cl.score, cr.score)) THEN cr ELSE cl

\* What a kernel evaluates at candidate value v: the imputation-aware kernels
\* score both NA directions and keep the better one.
BestAtValue(k, df, cfg, avg, spt, f, v) ==
  IF IsImputeKernel(k)
  THEN BetterDirection(Candidate(k, df, cfg, avg, spt, f, v, -1),
                       Candidate(k, df, cfg, avg, spt, f, v, 1))
  ELSE Candidate(k, df, cfg, avg, spt, f, v, 0)

\* A running best updated with candidate c: a better score replaces it, an
\* equal one is reservoir-sampled with the generator.
UpdateBest(best, c) ==
  IF ~c.ok THEN best
  ELSE IF best.count = 0 \/ RLt(best.loss, c.score)
  THEN [best EXCEPT !.loss = c.score, !.value = c.value, !.naDir = c.naDir,
                    !.count = 1]
  ELSE IF RLt(c.score, best.loss) THEN best
  ELSE LET take == (best.rng % (best.count + 1)) = 0
       IN  [loss |-> best.loss,
            value |-> IF take THEN c.value ELSE best.value,
            naDir |-> IF take THEN c.naDir ELSE best.naDir,
            count |-> best.count + 1,
            rng |-> RngNext(best.rng)]

RECURSIVE ScanCandidates(_, _, _, _, _, _, _, _)
ScanCandidates(k, df, cfg, avg, spt, f, values, best) ==
  IF values = <<>> THEN best
  ELSE ScanCandidates(k, df, cfg, avg, spt, f, Tail(values),
         UpdateBest(best, BestAtValue(k, df, cfg, avg, spt, f, Head(values))))

\* A split-search kernel on feature f: its best loss, value, tie count and NA
\* direction (count = 0: no admissible split, the best value stays NaN), and
\* the generator state afterwards.
findBestSplit(k, df, cfg, avg, spt, f, g) ==
  ScanCandidates(k, df, cfg, avg, spt, f, Candidates(df, spt, f),
                 [loss |-> RInt(0), value |-> NaN, naDir |-> 0, count |-> 0, rng |-> g])

\* The best of one feature added to those scored before it.
AppendBest(scored, k, currentFeature, one) ==
  [all |-> Append(scored.all,
             [kernel |-> k, feature |-> currentFeature, loss |-> one.loss,
              value |-> one.value, count |-> one.count, naDir |-> one.naDir]),
   rng |-> one.rng]

ScoreFeature(df, cfg, avg, spt, currentFeature, k, scored) ==
  AppendBest(scored, k, currentFeature,
             findBestSplit(k, df, cfg, avg, spt, currentFeature, scored.rng))

\* The per-feature bests of the sampled features, scored in list order.
RECURSIVE ScoreFeatures(_, _, _, _, _, _, _)
ScoreFeatures(df, cfg, linear, avg, spt, featureList, scored) ==
  IF featureList = <<>> THEN scored
  ELSE ScoreFeatures(df, cfg, linear, avg, spt, Tail(featureList),
         ScoreFeature(df, cfg, avg, spt, Head(featureList),
                      kernelFor(Head(featureList) \in df.catCols, linear, cfg.hasNas),
                      scored))

\* determineBestSplit: the feature with the largest improvement; equal
\* improvements are reservoir-sampled by their tie counts.  The best value is
\* NaN when no feature has an admissible split.
RECURSIVE determineBestSplit(_, _)
determineBestSplit(all, acc) ==
  IF all = <<>> THEN acc
  ELSE LET c == Head(all)
       IN  IF c.count = 0 THEN determineBestSplit(Tail(all), acc)
           ELSE IF acc.count = 0 \/ RLt(acc.loss, c.loss)
           THEN determineBestSplit(Tail(all),
                  [acc EXCEPT !.bestSplitFeature = c.feature,
                              !.bestSplitValue = c.value,
                              !.bestSplitNaDir = c.naDir,
                              !.loss = c.loss, !.count = c.count])
           ELSE IF RLt(c.loss, acc.loss) THEN determineBestSplit(Tail(all), acc)
           ELSE LET total == acc.count + c.count
                    take == (acc.rng % total) < c.count
                IN  determineBestSplit(Tail(all),
                      [bestSplitFeature |-> IF take THEN c.feature ELSE acc.bestSplitFeature,
                       bestSplitValue |-> IF take THEN c.value ELSE acc.bestSplitValue,
                       bestSplitNaDir |-> IF take THEN c.naDir ELSE acc.bestSplitNaDir,
                       loss |-> acc.loss, count |-> total, rng |-> RngNext(acc.rng)])

\* selectBestFeature: one kernel per sampled feature, then determineBestSplit.
BestOfScored(scored) ==
  [kernels |-> [i \in DOMAIN scored.all |->
                  [feature |-> scored.all[i].feature, kernel |-> scored.all[i].kernel]]]
  @@ determineBestSplit(scored.all,
       [bestSplitFeature |-> 0, bestSplitValue |-> NaN, bestSplitNaDir |-> 0,
        loss |-> RInt(0), count |-> 0, rng |-> scored.rng])

selectBestFeature(df, cfg, linear, featureList, avg, spt, g) ==
  BestOfScored(ScoreFeatures(df, cfg, linear, avg, spt, featureList,
                             [all |-> <<>>, rng |-> g]))

\* calculateRSquaredSplit / crossValidatedRSquared with numTimesCV = 1:
\* R^2(children) - R^2(parent) on the splitting set.  A zero total sum of
\* squares makes both quotients, and the difference, NaN.
RQuotient(p, q) ==
  IF q[1] = 0 THEN [nan |-> TRUE, value |-> RInt(0)]
  ELSE [nan |-> FALSE, value |-> Rat(p[1] * q[2], p[2] * q[1])]

TotalSumSquaresOf(t) == RSub(RInt(t.yy), Rat(t.y * t.y, t.n))

crossValidatedRSquared(df, spt, sptLeft, sptRight, lambda) ==
  RQuotient(RSub(calculateRSS(df, spt, lambda),
                 RAdd(calculateRSS(df, sptLeft, lambda),
                      calculateRSS(df, sptRight, lambda))),
            TotalSumSquaresOf(RidgeSums(df, spt)))

\* ------------------------------------------------------------------ state

\* Two forestryTree objects can be built from the same inputs.
Builds == {1, 2}

\* The tree a build grew, and the tree reconstructed from its record.
Objects == {"grown", "rebuilt"}

VARIABLES
  trainingData,  \* the DataFrame the trees are grown on
  args,          \* the arguments the constructor is called with
  pc,            \* per build: "off", "new", "growing", "grown", "error"
  error,         \* per build: the message of the exception thrown, or ""
  tree,          \* per build: the fields of the forestryTree object
  stack,         \* per build: the frames of recursivePartition, top first
  calls,         \* per build: node position -> the arguments of its call
  rng,           \* per build: the generator passed to the constructor
  treeInfo,      \* per build and object: the record getTreeInfo returned
  rebuilt,       \* per build: the forestryTree reconstruct_tree filled in
  xNew,          \* per build: the batch of points predict was called on
  outputPrediction,  \* per build and object: what predict wrote
  allIndex,      \* per build: the allIndex vector of the caller
  outputOOBIndex,  \* per build: the outputOOBIndex vector of the caller
  oob,           \* per build: the OOB computation called, and the output before
  access,        \* per build: the accessor called on a node, and what it threw
  reconstruction, \* per build: what recursive_reconstruction read of each vector
  sizes          \* the four sizes the empty-partition guard was applied to

vars ==
  <<trainingData, args, pc, error, tree, stack, calls, rng, treeInfo, rebuilt,
    xNew, outputPrediction, allIndex, outputOOBIndex, oob, access,
    reconstruction, sizes>>

\* The vectors of the caller of the OOB computations.
oobVars == <<allIndex, outputOOBIndex, oob>>

\* What the growth of a tree leaves alone.
afterGrowth ==
  <<treeInfo, rebuilt, xNew, outputPrediction, oobVars, access, reconstruction,
    sizes>>

\* ------------------------------------------------------------------ nodes

\* An RFNode.  The children of the node at position p are at 2p and 2p + 1;
\* the root is at position 1.
NewNode ==
  [kind |-> "new", averageCount |-> 0, splitCount |-> 0, nodeId |-> 0,
   weight |-> RInt(0), ridgeCoefficients |-> <<>>, splitFeature |-> 0,
   splitValue |-> 0, naLeftCount |-> 0, naRightCount |-> 0,
   naDefaultDirection |-> 0]

Root == 1
LeftOf(p) == 2 * p
RightOf(p) == 2 * p + 1

\* RFNode::setLeafNode(averageCount, splitCount, nodeId, weight).
setLeafNode(node, averageCount, splitCount, nodeId, weight) ==
  [node EXCEPT !.kind = "leaf", !.averageCount = averageCount,
               !.splitCount = splitCount, !.nodeId = nodeId, !.weight = weight]

\* RFNode::setRidgeCoefficients: the ridge fit on the averaging set.
setRidgeCoefficients(node, df, averagingSampleIndex, overfitPenalty) ==
  [node EXCEPT !.ridgeCoefficients = RidgeBeta(df, averagingSampleIndex, overfitPenalty)]

\* RFNode::setSplitNode; the children stay where they were created.
setSplitNode(node, splitFeature, splitValue, naLeftCount, naRightCount, naDefaultDirection) ==
  [node EXCEPT !.kind = "split", !.splitFeature = splitFeature,
               !.splitValue = splitValue, !.naLeftCount = naLeftCount,
               !.naRightCount = naRightCount,
               !.naDefaultDirection = naDefaultDirection]

\* RFNode::is_leaf.
is_leaf(node) == node.kind = "leaf"

\* The accessors of RFNode that test is_leaf, with what they throw on a leaf.
SplitAccessors ==
  [getSplitFeature |-> "Cannot get split feature for a leaf.",
   getSplitValue |-> "Cannot get split feature for a leaf.",
   getLeftSplitValue |-> "Cannot get left split feature for a leaf.",
   getLeftChild |-> "Cannot get left child for a leaf.",
   getRightChild |-> "Cannot get right child for a leaf.",
   getCenterChild |-> "Cannot get right child for a leaf."]

\* The accessors of RFNode that return a field of the node untested.
FieldAccessors ==
  {"getSplitCount", "getAverageCount", "getWeight", "getAveragingIndex",
   "getSplittingIndex", "getNodeId"}

\* What an accessor called on a node throws: "" when it returns.
thrownBy(node, accessor) ==
  IF accessor \in DOMAIN SplitAccessors /\ is_leaf(node)
  THEN SplitAccessors[accessor] ELSE ""

\* A counter that starts one too high.
InitialNodeCountOne == 0 + 1

\* The value _nodeCount starts from.
InitialNodeCount == 0

\* forestryTree::assignNodeId: the next id of the tree's counter.
assignNodeId(nodeCount) == nodeCount + 1

\* A default-constructed forestryTree.
EmptyTree ==
  [mtry |-> 0, minNodeSizeSpt |-> 0, minNodeSizeAvg |-> 0,
   minNodeSizeToSplitSpt |-> 0, minNodeSizeToSplitAvg |-> 0,
   minSplitGain |-> RInt(0), maxDepth |-> 0, interactionDepth |-> 0,
   hasNas |-> FALSE, naDirection |-> FALSE, overfitPenalty |-> 0,
   averagingSampleIndex |-> <<>>, splittingSampleIndex |-> <<>>,
   root |-> <<>>, nodeCount |-> 0, seed |-> 0]

\* ------------------------------------------------------ constructor inputs

\* The minimum sizes a tree is built with.
SizeMenu ==
  { [minNodeSizeSpt |-> 1, minNodeSizeAvg |-> 1,
     minNodeSizeToSplitSpt |-> 1, minNodeSizeToSplitAvg |-> 1],
    [minNodeSizeSpt |-> 2, minNodeSizeAvg |-> 2,
     minNodeSizeToSplitSpt |-> 1, minNodeSizeToSplitAvg |-> 1],
    [minNodeSizeSpt |-> 3, minNodeSizeAvg |-> 3,
     minNodeSizeToSplitSpt |-> 1, minNodeSizeToSplitAvg |-> 1],
    [minNodeSizeSpt |-> 1, minNodeSizeAvg |-> 1,
     minNodeSizeToSplitSpt |-> 2, minNodeSizeToSplitAvg |-> 2] }

\* The sampled index vectors: every row in both sets, or an honest pair of
\* unsorted bootstrap samples with repeated entries.
IndexMenu ==
  { [splittingSampleIndex |-> AllRows, averagingSampleIndex |-> AllRows],
    [splittingSampleIndex |-> [i \in 1..NumRows |-> NumRows - i] \o <<0>>,
     averagingSampleIndex |-> <<1>> \o SubSeq(AllRows, 1, NumRows - 1)] }

SeedMenu == {0, 4}

LinearMenu ==
  { [linear |-> FALSE, minSplitGain |-> RInt(0)],
    [linear |-> TRUE, minSplitGain |-> RInt(0)],
    [linear |-> TRUE, minSplitGain |-> Rat(1, 2)] }

ConstructorArgs(df) ==
  { [mtry |-> mtry,
     minNodeSizeSpt |-> sz.minNodeSizeSpt,
     minNodeSizeAvg |-> sz.minNodeSizeAvg,
     minNodeSizeToSplitSpt |-> sz.minNodeSizeToSplitSpt,
     minNodeSizeToSplitAvg |-> sz.minNodeSizeToSplitAvg,
     minSplitGain |-> lm.minSplitGain,
     maxDepth |-> maxDepth,
     interactionDepth |-> 1,
     splittingSampleIndex |-> ix.splittingSampleIndex,
     averagingSampleIndex |-> ix.averagingSampleIndex,
     splitMiddle |-> FALSE,
     maxObs |-> NumRows + 1,
     hasNas |-> hasNas,
     naDirection |-> naDirection,
     linear |-> lm.linear,
     overfitPenalty |-> 1,
     seed |-> seed]
    : mtry \in 1..getNumColumns(df), sz \in SizeMenu, lm \in LinearMenu,
      maxDepth \in 1..MaxDepthBound, ix \in IndexMenu,
      hasNas \in {h \in BOOLEAN : HasMissing(df) => h},
      naDirection \in BOOLEAN, seed \in SeedMenu }

\* Arguments the constructor rejects: valid ones with one of them changed.
ErroneousArgs(df) ==
  UNION { { [a EXCEPT !.minNodeSizeAvg = 0],
            [a EXCEPT !.minNodeSizeSpt = 0],
            [a EXCEPT !.minNodeSizeToSplitSpt = 0],
            [a EXCEPT !.minNodeSizeToSplitAvg = 0],
            [a EXCEPT !.minNodeSizeToSplitAvg = Len(a.averagingSampleIndex) + 1],
            [a EXCEPT !.minNodeSizeToSplitSpt = Len(a.splittingSampleIndex) + 1],
            [a EXCEPT !.maxDepth = 0],
            [a EXCEPT !.minSplitGain = Rat(1, 2), !.linear = FALSE],
            [a EXCEPT !.averagingSampleIndex = <<>>],
            [a EXCEPT !.splittingSampleIndex = <<>>],
            [a EXCEPT !.averagingSampleIndex = <<>>, !.splittingSampleIndex = <<>>],
            [a EXCEPT !.mtry = 0],
            [a EXCEPT !.mtry = getNumColumns(df) + 1],
            [a EXCEPT !.mtry = 0, !.maxDepth = 0] }
          : a \in {c \in ConstructorArgs(df) :
                     /\ c.mtry = 1 /\ c.maxDepth = 1 /\ c.seed = 0 /\ ~c.naDirection
                     /\ c.minNodeSizeSpt = 1 /\ c.minNodeSizeToSplitSpt = 1
                     /\ c.splittingSampleIndex = AllRows} }

\* The guard has not been applied: no sizes.
NoSizes == [applied |-> FALSE]

\* No record has been reconstructed.
NoReconstruction == [consumed |-> <<>>, remaining |-> <<>>, pastEnd |-> FALSE]

\* No accessor of a node has been called.
NoAccess == [node |-> 0, accessor |-> "", thrown |-> ""]

\* No OOB computation has been called.
NoCall ==
  [regime |-> "", before |-> <<>>, called |-> <<>>, caller |-> "",
   OOBhonest |-> FALSE, doubleOOB |-> FALSE,
   outputOOBPrediction |-> <<>>, outputOOBCount |-> <<>>,
   training_idx |-> <<>>, OOBIndex |-> <<>>, currentTreePrediction |-> <<>>,
   predictionBefore |-> <<>>, countBefore |-> <<>>]

\* The state before the constructor is called on the builds started.
BeforeConstruction(started) ==
  /\ pc = [b \in Builds |-> IF b \in started THEN "new" ELSE "off"]
  /\ error = [b \in Builds |-> ""]
  /\ tree = [b \in Builds |-> EmptyTree]
  /\ stack = [b \in Builds |-> <<>>]
  /\ calls = [b \in Builds |-> <<>>]
  /\ rng = [b \in Builds |-> RngSeed(args.seed + 1)]
  /\ treeInfo = [b \in Builds |-> [o \in Objects |-> <<>>]]
  /\ rebuilt = [b \in Builds |-> EmptyTree]
  /\ xNew = [b \in Builds |-> <<>>]
  /\ outputPrediction = [b \in Builds |-> [o \in Objects |-> <<>>]]
  /\ allIndex = [b \in Builds |-> <<>>]
  /\ outputOOBIndex = [b \in Builds |-> <<>>]
  /\ oob = [b \in Builds |-> NoCall]
  /\ access = [b \in Builds |-> NoAccess]
  /\ reconstruction = [b \in Builds |-> NoReconstruction]
  /\ sizes = NoSizes

InitOf(started) ==
  /\ trainingData \in DataFrames
  /\ args \in ConstructorArgs(trainingData) \cup ErroneousArgs(trainingData)
  /\ BeforeConstruction(started)

Init == InitOf({1})

\* ------------------------------------------------------------ constructor

\* The sanity checks without the one on maxDepth.
ConstructionErrorDepthUnchecked(a, df) ==
  IF a.minNodeSizeAvg = 0 THEN "minNodeSizeAvg cannot be set to 0."
  ELSE IF a.minNodeSizeSpt = 0 THEN "minNodeSizeSpt cannot be set to 0."
  ELSE IF a.minNodeSizeToSplitSpt = 0 THEN "minNodeSizeToSplitSpt cannot be set to 0."
  ELSE IF a.minNodeSizeToSplitAvg = 0 THEN "minNodeSizeToSplitAvg cannot be set to 0."
  ELSE IF a.minNodeSizeToSplitAvg > Len(a.averagingSampleIndex)
  THEN "minNodeSizeToSplitAvg cannot exceed total elements in the averaging samples"
  ELSE IF a.minNodeSizeToSplitSpt > Len(a.splittingSampleIndex)
  THEN "minNodeSizeToSplitSpt cannot exceed total elements in the splitting samples"
  ELSE IF a.minSplitGain # RInt(0) /\ ~a.linear
  THEN "minSplitGain cannot be set without setting linear to be true."
  ELSE IF Len(a.averagingSampleIndex) = 0
  THEN "averagingSampleIndex size cannot be set to 0."
  ELSE IF Len(a.splittingSampleIndex) = 0
  THEN "splittingSampleIndex size cannot be set to 0."
  ELSE IF a.mtry = 0 THEN "mtry cannot be set to 0."
  ELSE IF a.mtry > getNumColumns(df) THEN "mtry cannot exceed total amount of features"
  ELSE ""

\* The sanity checks of the constructor, in their order: the message of the
\* first one that fails, or "" when all pass.
ConstructionError(a, df) ==
  IF a.minNodeSizeAvg = 0 THEN "minNodeSizeAvg cannot be set to 0."
  ELSE IF a.minNodeSizeSpt = 0 THEN "minNodeSizeSpt cannot be set to 0."
  ELSE IF a.minNodeSizeToSplitSpt = 0 THEN "minNodeSizeToSplitSpt cannot be set to 0."
  ELSE IF a.minNodeSizeToSplitAvg = 0 THEN "minNodeSizeToSplitAvg cannot be set to 0."
  ELSE IF a.minNodeSizeToSplitAvg > Len(a.averagingSampleIndex)
  THEN "minNodeSizeToSplitAvg cannot exceed total elements in the averaging samples"
  ELSE IF a.minNodeSizeToSplitSpt > Len(a.splittingSampleIndex)
  THEN "minNodeSizeToSplitSpt cannot exceed total elements in the splitting samples"
  ELSE IF a.maxDepth = 0 THEN "maxDepth cannot be set to 0."
  ELSE IF a.minSplitGain # RInt(0) /\ ~a.linear
  THEN "minSplitGain cannot be set without setting linear to be true."
  ELSE IF Len(a.averagingSampleIndex) = 0
  THEN "averagingSampleIndex size cannot be set to 0."
  ELSE IF Len(a.splittingSampleIndex) = 0
  THEN "splittingSampleIndex size cannot be set to 0."
  ELSE IF a.mtry = 0 THEN "mtry cannot be set to 0."
  ELSE IF a.mtry > getNumColumns(df) THEN "mtry cannot exceed total amount of features"
  ELSE ""

\* The bounds of the monotonic_info the constructor hands to the root.
RootBounds == [upper_bound |-> RInt(DoubleMax), lower_bound |-> RInt(-DoubleMax)]

\* A frame of recursivePartition: its arguments, where it stands ("entry",
\* or in the call on its "left" or "right" child), and its locals.
Frame(node, averagingSampleIndex, splittingSampleIndex, depth) ==
  [node |-> node,
   averagingSampleIndex |-> averagingSampleIndex,
   splittingSampleIndex |-> splittingSampleIndex,
   depth |-> depth,
   at |-> "entry",
   bestSplitFeature |-> 0, bestSplitValue |-> NaN, bestSplitNaDir |-> 0,
   naLeftCount |-> 0, naRightCount |-> 0,
   averagingRightPartitionIndex |-> <<>>,
   splittingRightPartitionIndex |-> <<>>,
   monotone_details |-> RootBounds,
   monotonic_details_right |-> RootBounds]

\* What is recorded of a call of recursivePartition on a node.
Call(averagingSampleIndex, splittingSampleIndex, depth) ==
  [averagingSampleIndex |-> averagingSampleIndex,
   splittingSampleIndex |-> splittingSampleIndex,
   depth |-> depth, sealedBy |-> "", featureList |-> <<>>, kernels |-> <<>>]

\* forestryTree::forestryTree: the sanity checks, the fields, and the first
\* call of recursivePartition on the root at depth 0.
construct(b, a) ==
  /\ pc[b] = "new"
  /\ LET msg == ConstructionError(a, trainingData)
     IN  IF msg # ""
         THEN /\ pc' = [pc EXCEPT ![b] = "error"]
              /\ error' = [error EXCEPT ![b] = msg]
              /\ UNCHANGED <<tree, stack, calls>>
         ELSE /\ pc' = [pc EXCEPT ![b] = "growing"]
              /\ tree' = [tree EXCEPT ![b] =
                   [mtry |-> a.mtry,
                    minNodeSizeSpt |-> a.minNodeSizeSpt,
                    minNodeSizeAvg |-> a.minNodeSizeAvg,
                    minNodeSizeToSplitSpt |-> a.minNodeSizeToSplitSpt,
                    minNodeSizeToSplitAvg |-> a.minNodeSizeToSplitAvg,
                    minSplitGain |-> a.minSplitGain,
                    maxDepth |-> a.maxDepth,
                    interactionDepth |-> a.interactionDepth,
                    hasNas |-> a.hasNas,
                    naDirection |-> a.naDirection,
                    overfitPenalty |-> a.overfitPenalty,
                    averagingSampleIndex |-> a.averagingSampleIndex,
                    splittingSampleIndex |-> a.splittingSampleIndex,
                    root |-> (Root :> NewNode),
                    nodeCount |-> InitialNodeCount,
                    seed |-> a.seed]]
              /\ stack' = [stack EXCEPT ![b] =
                   <<Frame(Root, a.averagingSampleIndex,
                           a.splittingSampleIndex, 0)>>]
              /\ calls' = [calls EXCEPT ![b] =
                   (Root :> Call(a.averagingSampleIndex,
                                 a.splittingSampleIndex, 0))]
              /\ UNCHANGED error
  /\ UNCHANGED <<trainingData, args, rng, afterGrowth>>

forestryTree(b) == construct(b, args)

\* The constructor called with the other value of naDirection.
forestryTreeToggled(b) == construct(b, [args EXCEPT !.naDirection = ~@])

\* ------------------------------------------------------ recursive growth

\* A terminal test that leaves the depth out.
terminalTestOfSizes(tr, averagingSampleIndex, splittingSampleIndex, depth) ==
  \/ Len(averagingSampleIndex) < tr.minNodeSizeAvg
  \/ Len(splittingSampleIndex) < tr.minNodeSizeSpt

\* The pre-split terminal test of recursivePartition.
terminalTest(tr, averagingSampleIndex, splittingSampleIndex, depth) ==
  \/ Len(averagingSampleIndex) < tr.minNodeSizeAvg
  \/ Len(splittingSampleIndex) < tr.minNodeSizeSpt
  \/ depth = tr.maxDepth

\* The width of size_t, the type of the four sizes of the guard.
SizeBits == 64

\* The number of bytes of a size_t.
SizeBytes == SizeBits \div 8

\* The count least significant bytes of the natural n, the least first.
RECURSIVE bytesOf(_, _)
bytesOf(n, count) ==
  IF count = 0 THEN <<>> ELSE <<n % 256>> \o bytesOf(n \div 256, count - 1)

\* A size of a vector as a size_t.
size_t(n) == bytesOf(n, SizeBytes)

\* The sum of the products of bytes of x and y that fall on byte k, from
\* byte i of x down.
RECURSIVE columnSum(_, _, _, _)
columnSum(x, y, k, i) ==
  IF i = 0 THEN 0 ELSE x[i] * y[k + 1 - i] + columnSum(x, y, k, i - 1)

\* The bytes k and above of the product of two size_t, carry being carried
\* into byte k: what is carried out of the last byte is dropped.
RECURSIVE timesFrom(_, _, _, _)
timesFrom(x, y, k, column) ==
  IF k = SizeBytes THEN <<column % 256>>
  ELSE <<column % 256>>
       \o timesFrom(x, y, k + 1,
                    columnSum(x, y, k + 1, k + 1) + column \div 256)

\* The product of two size_t.
sizeTimes(x, y) == timesFrom(x, y, 1, x[1] * y[1])

\* A guard on the two splitting partitions alone.
emptyPartitionOfSplitting(lAvgSize, rAvgSize, lSplSize, rSplSize) ==
  sizeTimes(size_t(lSplSize), size_t(rSplSize)) = size_t(0)

\* The guard against an empty partition: the product of the four sizes, taken
\* in size_t, is 0.
emptyPartition(lAvgSize, rAvgSize, lSplSize, rSplSize) ==
  sizeTimes(sizeTimes(sizeTimes(size_t(lAvgSize), size_t(rAvgSize)),
                      size_t(lSplSize)), size_t(rSplSize)) = size_t(0)

\* A depth that is passed down unchanged.
childDepthSame(depth) == depth

\* The depth the children of a node at this depth are grown at.
childDepth(depth) == depth + 1

\* A generator whose seed differs from one tree object to the next.
naDirectionGeneratorPerObject(b) == RngSeed(tree[b].seed + b)

\* The generator the NA-direction randomisation draws from: a fresh one,
\* seeded with the seed of the tree.
naDirectionGenerator(b) == RngSeed(tree[b].seed)

\* The default NA direction of a split at which no missing value was
\* counted: left or right in proportion to the two averaging partitions.
randomNaDirection(b, lAvgSize, rAvgSize) ==
  IF discrete_distribution(<<lAvgSize, rAvgSize>>, naDirectionGenerator(b)) = 0
  THEN -1 ELSE 1

\* A leaf whose weight is the mean of the splitting set.
sealedLeafOfSplittingMean(node, df, averagingSampleIndex, splittingSampleIndex, node_id, linear, overfitPenalty) ==
  setLeafNode(node, Len(averagingSampleIndex), Len(splittingSampleIndex),
              node_id, partitionMean(df, splittingSampleIndex))

\* The leaf a node becomes: setLeafNode with the sizes of its sets and the
\* mean of its averaging set, then the ridge fit if the tree is linear.
sealedLeaf(node, df, averagingSampleIndex, splittingSampleIndex, node_id, linear, overfitPenalty) ==
  IF linear
  THEN setRidgeCoefficients(
         setLeafNode(node, Len(averagingSampleIndex), Len(splittingSampleIndex),
                     node_id, partitionMean(df, averagingSampleIndex)),
         df, averagingSampleIndex, overfitPenalty)
  ELSE setLeafNode(node, Len(averagingSampleIndex), Len(splittingSampleIndex),
                   node_id, partitionMean(df, averagingSampleIndex))

\* The node of frame fr becomes a leaf by the rule named; the call returns.
SealLeaf(b, fr, rule, featureList, kernels, g) ==
  /\ tree' = [tree EXCEPT
         ![b].root[fr.node] =
            sealedLeaf(@, trainingData, fr.averagingSampleIndex,
                       fr.splittingSampleIndex, assignNodeId(tree[b].nodeCount),
                       args.linear, args.overfitPenalty),
         ![b].nodeCount = assignNodeId(@)]
  /\ stack' = [stack EXCEPT ![b] = Tail(@)]
  /\ calls' = [calls EXCEPT ![b][fr.node].sealedBy = rule,
                            ![b][fr.node].featureList = featureList,
                            ![b][fr.node].kernels = kernels]
  /\ rng' = [rng EXCEPT ![b] = g]
  /\ pc' = [pc EXCEPT ![b] = IF Len(stack[b]) = 1 THEN "grown" ELSE "growing"]

\* The default NA direction a split is created with: randomised when asked
\* for and no missing value was counted, else the one the kernel chose.
defaultNaDirection(b, sel, parts) ==
  IF tree[b].naDirection /\ parts.naLeftCount = 0 /\ parts.naRightCount = 0
  THEN randomNaDirection(b, Len(parts.averagingLeftPartitionIndex),
                         Len(parts.averagingRightPartitionIndex))
  ELSE sel.bestSplitNaDir

\* A randomisation that draws from the generator of the recursion.
rngAfterNaDirectionShared(b, sel, parts) ==
  IF tree[b].naDirection /\ parts.naLeftCount = 0 /\ parts.naRightCount = 0
  THEN RngNext(sel.rng) ELSE sel.rng

\* The generator of the recursion after the NA direction is settled: the
\* randomisation draws from a generator of its own.
rngAfterNaDirection(b, sel, parts) == sel.rng

\* calculateMonotonicBound: a mean brought within the bounds.
calculateMonotonicBound(mean, monotone_details) ==
  IF RLt(mean, monotone_details.lower_bound) THEN monotone_details.lower_bound
  ELSE IF RLt(monotone_details.upper_bound, mean) THEN monotone_details.upper_bound
  ELSE mean

\* Bounds of the children with the two sides exchanged.
boundsOfChildrenExchanged(monotone_details, monotone_direction, midMean) ==
  IF monotone_direction = 1
  THEN [left |-> [monotone_details EXCEPT !.lower_bound = midMean],
        right |-> [monotone_details EXCEPT !.upper_bound = midMean]]
  ELSE IF monotone_direction = -1
  THEN [left |-> [monotone_details EXCEPT !.upper_bound = midMean],
        right |-> [monotone_details EXCEPT !.lower_bound = midMean]]
  ELSE [left |-> monotone_details, right |-> monotone_details]

\* The bounds of the children of a split with this constraint and midMean.
boundsOfChildren(monotone_details, monotone_direction, midMean) ==
  IF monotone_direction = -1
  THEN [left |-> [monotone_details EXCEPT !.lower_bound = midMean],
        right |-> [monotone_details EXCEPT !.upper_bound = midMean]]
  ELSE IF monotone_direction = 1
  THEN [left |-> [monotone_details EXCEPT !.upper_bound = midMean],
        right |-> [monotone_details EXCEPT !.lower_bound = midMean]]
  ELSE [left |-> monotone_details, right |-> monotone_details]

\* updateMonotoneConstraints: the bounds handed to the two children.
updateMonotoneConstraints(monotone_details, monotonic_constraints, leftMean, rightMean, bestSplitFeature) ==
  boundsOfChildren(monotone_details, monotonic_constraints[bestSplitFeature],
    RMul(RAdd(calculateMonotonicBound(leftMean, monotone_details),
              calculateMonotonicBound(rightMean, monotone_details)), Rat(1, 2)))

\* The bounds recursivePartition hands to its children: updated if the tree
\* is grown under monotone constraints.
childBounds(df, fr, sel, parts) ==
  IF monotone_splits(df)
  THEN updateMonotoneConstraints(fr.monotone_details, df.monotonicConstraints,
         partitionMean(df, parts.splittingLeftPartitionIndex),
         partitionMean(df, parts.splittingRightPartitionIndex),
         sel.bestSplitFeature)
  ELSE [left |-> RootBounds, right |-> RootBounds]

\* The node of frame fr is split: its children are created and the call on
\* the left child is made.
Descend(b, fr, featureList, sel, parts) ==
  /\ tree' = [tree EXCEPT ![b].root =
         (LeftOf(fr.node) :> NewNode) @@ (RightOf(fr.node) :> NewNode) @@ @]
  /\ stack' = [stack EXCEPT ![b] =
         <<[Frame(LeftOf(fr.node), parts.averagingLeftPartitionIndex,
                  parts.splittingLeftPartitionIndex, childDepth(fr.depth))
              EXCEPT !.monotone_details = childBounds(trainingData, fr, sel, parts).left],
           [fr EXCEPT !.at = "left",
              !.monotonic_details_right =
                 childBounds(trainingData, fr, sel, parts).right,
              !.bestSplitFeature = sel.bestSplitFeature,
              !.bestSplitValue = sel.bestSplitValue,
              !.bestSplitNaDir = defaultNaDirection(b, sel, parts),
              !.naLeftCount = parts.naLeftCount,
              !.naRightCount = parts.naRightCount,
              !.averagingRightPartitionIndex = parts.averagingRightPartitionIndex,
              !.splittingRightPartitionIndex = parts.splittingRightPartitionIndex]>>
         \o Tail(@)]
  /\ calls' = [calls EXCEPT ![b] =
         (LeftOf(fr.node) :> Call(parts.averagingLeftPartitionIndex,
                                  parts.splittingLeftPartitionIndex,
                                  childDepth(fr.depth)))
         @@ [@ EXCEPT ![fr.node].featureList = featureList,
                      ![fr.node].kernels = sel.kernels]]
  /\ rng' = [rng EXCEPT ![b] = rngAfterNaDirection(b, sel, parts)]
  /\ UNCHANGED pc

\* The minSplitGain gate: the split is given up when its gain is below it.
belowMinSplitGain(minSplitGain, gain) ==
  /\ RLt(RInt(0), minSplitGain)
  /\ ~gain.nan
  /\ RLt(gain.value, minSplitGain)

\* recursivePartition once the data is split.
afterSplitData(b, fr, featureList, sel, parts) ==
  IF emptyPartition(Len(parts.averagingLeftPartitionIndex),
                    Len(parts.averagingRightPartitionIndex),
                    Len(parts.splittingLeftPartitionIndex),
                    Len(parts.splittingRightPartitionIndex))
  THEN SealLeaf(b, fr, "degenerate", featureList, sel.kernels, sel.rng)
  ELSE IF belowMinSplitGain(tree[b].minSplitGain,
            crossValidatedRSquared(trainingData, fr.splittingSampleIndex,
              parts.splittingLeftPartitionIndex,
              parts.splittingRightPartitionIndex, args.overfitPenalty))
  THEN SealLeaf(b, fr, "gain", featureList, sel.kernels, sel.rng)
  ELSE Descend(b, fr, featureList, sel, parts)

\* A node without a split that is sealed as a leaf of its observations
\* counted twice.
afterSelectBestFeatureTwice(b, fr, featureList, sel) ==
  IF isnan(sel.bestSplitValue)
  THEN SealLeaf(b, [fr EXCEPT !.averagingSampleIndex = @ \o @,
                              !.splittingSampleIndex = @ \o @],
                "nosplit", featureList, sel.kernels, sel.rng)
  ELSE afterSplitData(b, fr, featureList, sel,
         splitData(trainingData, fr.averagingSampleIndex, fr.splittingSampleIndex,
                   sel.bestSplitFeature, sel.bestSplitValue, sel.bestSplitNaDir,
                   sel.bestSplitFeature \in trainingData.catCols, tree[b].hasNas))

\* recursivePartition once selectBestFeature has returned.
afterSelectBestFeature(b, fr, featureList, sel) ==
  IF isnan(sel.bestSplitValue)
  THEN SealLeaf(b, fr, "nosplit", featureList, sel.kernels, sel.rng)
  ELSE afterSplitData(b, fr, featureList, sel,
         splitData(trainingData, fr.averagingSampleIndex, fr.splittingSampleIndex,
                   sel.bestSplitFeature, sel.bestSplitValue, sel.bestSplitNaDir,
                   sel.bestSplitFeature \in trainingData.catCols, tree[b].hasNas))

\* The call of sampleFeatures does not return: the construction stays in its
\* loop.
inSampleFeatures(b) ==
  /\ pc' = [pc EXCEPT ![b] = "sampleFeatures"]
  /\ UNCHANGED <<tree, stack, calls, rng>>

\* recursivePartition once the features are sampled.
afterSampleFeatures(b, fr, sampled) ==
  IF sampled.endless
  THEN inSampleFeatures(b)
  ELSE afterSelectBestFeature(b, fr, sampled.featureList,
         selectBestFeature(trainingData, fr.monotone_details @@ tree[b], args.linear,
                           sampled.featureList,
                           fr.averagingSampleIndex, fr.splittingSampleIndex, sampled.rng))

\* The features a node at this depth samples from: the deep weights apply
\* from interactionDepth on.
sampleAtDepth(tr, df, depth, g) ==
  IF depth >= tr.interactionDepth
  THEN sampleFeatures(tr.mtry, g, FALSE, getNumCols(df), df.deepFeatureWeights,
                      df.deepFeatureWeightsVariables)
  ELSE sampleFeatures(tr.mtry, g, FALSE, getNumCols(df), df.featureWeights,
                      df.featureWeightsVariables)

\* recursivePartition from its entry to its first return or recursive call.
recursivePartition(b) ==
  /\ pc[b] = "growing"
  /\ stack[b] # <<>>
  /\ Head(stack[b]).at = "entry"
  /\ IF terminalTest(tree[b], Head(stack[b]).averagingSampleIndex,
                     Head(stack[b]).splittingSampleIndex, Head(stack[b]).depth)
     THEN SealLeaf(b, Head(stack[b]), "terminal", <<>>, <<>>, rng[b])
     ELSE afterSampleFeatures(b, Head(stack[b]),
            sampleAtDepth(tree[b], trainingData, Head(stack[b]).depth, rng[b]))
  /\ UNCHANGED <<trainingData, args, error, afterGrowth>>

\* The call on the left child has returned: the call on the right child.
recursivePartitionRight(b) ==
  /\ pc[b] = "growing"
  /\ stack[b] # <<>>
  /\ Head(stack[b]).at = "left"
  /\ LET fr == Head(stack[b])
     IN  /\ stack' = [stack EXCEPT ![b] =
                <<[Frame(RightOf(fr.node), fr.averagingRightPartitionIndex,
                         fr.splittingRightPartitionIndex, childDepth(fr.depth))
                     EXCEPT !.monotone_details = fr.monotonic_details_right],
                  [fr EXCEPT !.at = "right"]>> \o Tail(@)]
         /\ calls' = [calls EXCEPT ![b] =
                (RightOf(fr.node) :> Call(fr.averagingRightPartitionIndex,
                                          fr.splittingRightPartitionIndex,
                                          childDepth(fr.depth))) @@ @]
  /\ UNCHANGED <<trainingData, args, pc, error, tree, rng, afterGrowth>>

\* Both calls have returned: the node becomes a split node and the call returns.
recursivePartitionReturn(b) ==
  /\ pc[b] = "growing"
  /\ stack[b] # <<>>
  /\ Head(stack[b]).at = "right"
  /\ LET fr == Head(stack[b])
     IN  /\ tree' = [tree EXCEPT ![b].root[fr.node] =
                setSplitNode(@, fr.bestSplitFeature, fr.bestSplitValue,
                             fr.naLeftCount, fr.naRightCount, fr.bestSplitNaDir)]
         /\ stack' = [stack EXCEPT ![b] = Tail(@)]
         /\ calls' = [calls EXCEPT ![b][fr.node].sealedBy = "split"]
         /\ pc' = [pc EXCEPT ![b] = IF Len(stack[b]) = 1 THEN "grown" ELSE "growing"]
  /\ UNCHANGED <<trainingData, args, error, rng, afterGrowth>>

\* -------------------------------------------------------------- predictor

\* The batches of points predict is called on: the training rows, or points
\* with unseen and missing feature values.
TrainingBatch(df) ==
  [x |-> [f \in Features |-> [i \in 1..NumRows |-> df.x[f][i - 1]]],
   linObs |-> [i \in 1..NumRows |-> df.linObs[i - 1]]]

FreshBatch ==
  [x |-> (0 :> <<1, 5, NaN, 7>>) @@ (1 :> <<2, 4, 6, NaN>>),
   linObs |-> << <<0>>, <<3>>, <<1>>, <<2>> >>]

Batches(df) == {TrainingBatch(df), FreshBatch}

\* The walk rule of RFNode::predict at a split node, on row i of the batch.
walksLeft(node, df, batch, i) ==
  LET value == batch.x[node.splitFeature][i]
  IN  IF isnan(value) THEN node.naDefaultDirection = -1
      ELSE IF node.splitFeature \in df.catCols THEN Eq(value, node.splitValue)
      ELSE Lt(value, node.splitValue)

\* The position of the leaf row i of the batch ends in, walking from p.
RECURSIVE terminalLeaf(_, _, _, _, _)
terminalLeaf(root, p, df, batch, i) ==
  IF root[p].kind = "leaf" THEN p
  ELSE terminalLeaf(root, IF walksLeft(root[p], df, batch, i)
                          THEN LeftOf(p) ELSE RightOf(p), df, batch, i)

\* The leaf rule of RFNode::predict: beta . [linObs, 1] at a linear leaf,
\* the leaf weight at a constant one.
leafPrediction(node, linObs, linear) ==
  IF linear /\ node.ridgeCoefficients # <<>>
  THEN RAdd(RMul(node.ridgeCoefficients[1], RInt(linObs[1])),
            node.ridgeCoefficients[2])
  ELSE node.weight

\* forestryTree::predict on every row of the batch: the prediction and the
\* terminal node id of each row.
predictBatch(tr, df, batch, linear) ==
  [i \in 1..Len(batch.linObs) |->
     LET leaf == tr.root[terminalLeaf(tr.root, Root, df, batch, i)]
     IN  [outputPrediction |-> leafPrediction(leaf, batch.linObs[i], linear),
          terminalNode |-> leaf.nodeId]]

\* ---------------------------------------------------------- serialization

\* The index shift of getTreeInfo, and the one of reconstruct_tree.
toOneBased(i) == i + 1

\* A shift left out.
fromOneBasedKept(i) == i

fromOneBased(i) == i - 1

\* The var_id a split on a feature is written as, and the feature a var_id
\* is read as.
featureToVarId(splitFeature) == splitFeature + 1

varIdToFeature(var_id) == var_id - 1

EmptyTreeInfo ==
  [var_ids |-> <<>>, split_vals |-> <<>>, naLeftCounts |-> <<>>,
   naRightCounts |-> <<>>, naDefaultDirections |-> <<>>, weights |-> <<>>,
   averagingSampleIndex |-> <<>>, splittingSampleIndex |-> <<>>, seed |-> 0]

\* RFNode::write_node_info: the subtree at p appended to the record in
\* pre-order.  Every node adds one entry to each of split_vals, naLeftCounts,
\* naRightCounts and naDefaultDirections; a leaf adds two var_ids and a weight.
RECURSIVE write_node_info(_, _, _)
write_node_info(root, p, info) ==
  LET node == root[p]
  IN  IF node.kind = "leaf"
      THEN [info EXCEPT
              !.var_ids = @ \o <<-node.averageCount, node.splitCount>>,
              !.split_vals = Append(@, 0),
              !.naLeftCounts = Append(@, 0),
              !.naRightCounts = Append(@, 0),
              !.naDefaultDirections = Append(@, 0),
              !.weights = Append(@, node.weight)]
      ELSE write_node_info(root, RightOf(p),
             write_node_info(root, LeftOf(p),
               [info EXCEPT
                  !.var_ids = Append(@, featureToVarId(node.splitFeature)),
                  !.split_vals = Append(@, node.splitValue),
                  !.naLeftCounts = Append(@, node.naLeftCount),
                  !.naRightCounts = Append(@, node.naRightCount),
                  !.naDefaultDirections = Append(@, node.naDefaultDirection)]))

\* A record into which the tree is written twice.
treeInfoOfTwice(tr) ==
  [write_node_info(tr.root, Root, write_node_info(tr.root, Root, EmptyTreeInfo))
     EXCEPT !.seed = tr.seed]

\* The record getTreeInfo returns for a tree.
treeInfoOf(tr) ==
  [write_node_info(tr.root, Root, EmptyTreeInfo) EXCEPT
     !.averagingSampleIndex = [i \in 1..Len(tr.averagingSampleIndex) |->
                                 toOneBased(tr.averagingSampleIndex[i])],
     !.splittingSampleIndex = [i \in 1..Len(tr.splittingSampleIndex) |->
                                 toOneBased(tr.splittingSampleIndex[i])],
     !.seed = tr.seed]

\* The vectors of the record that recursive_reconstruction consumes.
RecordVectors ==
  {"var_ids", "split_vals", "naLeftCounts", "naRightCounts",
   "naDefaultDirections", "weights"}

\* (*v)[0] and v->erase(v->begin()).  On an empty vector the read is past
\* the end; the caller flags it, and the value stands for whatever was read.
front(v) == IF v = <<>> THEN 0 ELSE Head(v)

erase_begin(v) == IF v = <<>> THEN <<>> ELSE Tail(v)

\* How many entries of each vector were erased between two states of the
\* reconstruction.
erasedBetween(before, after) ==
  [v \in RecordVectors |-> Len(before[v]) - Len(after[v])]

\* recursive_reconstruction on the node at p: st holds the vectors still to
\* be consumed, the nodes built so far, the id counter, what each node erased
\* of each vector, and whether a read went past the end of a vector (where
\* the reconstruction is given up).
RECURSIVE recursive_reconstruction(_, _)
recursive_reconstruction(st, p) ==
  LET var_id == front(st.var_ids)
      split_val == front(st.split_vals)
      naLeftCount == front(st.naLeftCounts)
      naRightCount == front(st.naRightCounts)
      naDefaultDirection == front(st.naDefaultDirections)
      popped == [st EXCEPT !.var_ids = erase_begin(@), !.split_vals = erase_begin(@),
                           !.naLeftCounts = erase_begin(@),
                           !.naRightCounts = erase_begin(@),
                           !.naDefaultDirections = erase_begin(@)]
  IN  IF st.pastEnd
      THEN st
      ELSE IF \E v \in RecordVectors \ {"weights"} : st[v] = <<>>
      THEN [st EXCEPT !.pastEnd = TRUE]
      ELSE IF var_id < 0
      THEN LET nAve == Abs(var_id)
               nSpl == Abs(front(popped.var_ids))
               predictionWeight == front(popped.weights)
               node_id == assignNodeId(popped.nodeCount)
           IN  IF popped.var_ids = <<>> \/ popped.weights = <<>>
               THEN [popped EXCEPT !.pastEnd = TRUE]
               ELSE LET sealed == [popped EXCEPT
                                     !.var_ids = erase_begin(@),
                                     !.weights = erase_begin(@),
                                     !.nodeCount = node_id,
                                     !.root = (p :> setLeafNode(NewNode, nAve, nSpl,
                                                      node_id, predictionWeight)) @@ @]
                    IN  [sealed EXCEPT
                           !.consumed = (p :> erasedBetween(st, sealed)) @@ @]
      ELSE LET left == recursive_reconstruction(popped, LeftOf(p))
               right == recursive_reconstruction(left, RightOf(p))
           IN  [right EXCEPT
                  !.consumed = (p :> erasedBetween(st, popped)) @@ @,
                  !.root = (p :> setSplitNode(NewNode, varIdToFeature(var_id),
                                   split_val, naLeftCount, naRightCount,
                                   naDefaultDirection)) @@ @]

\* ------------------------------------------------- operations on a tree

\* The object the next operation of build b is called on.
Current(b) == IF pc[b] \in {"grown", "predicted"} THEN "grown" ELSE "rebuilt"

ObjectOf(b, o) == IF o = "grown" THEN tree[b] ELSE rebuilt[b]

\* forestryTree::predict on the grown tree, and on the rebuilt one with the
\* same batch.
predict(b) ==
  /\ pc[b] \in {"grown", "reconstructed"}
  /\ \E batch \in IF pc[b] = "grown" THEN Batches(trainingData) ELSE {xNew[b]} :
       /\ xNew' = [xNew EXCEPT ![b] = batch]
       /\ outputPrediction' = [outputPrediction EXCEPT ![b][Current(b)] =
            predictBatch(ObjectOf(b, Current(b)), trainingData, batch, args.linear)]
  /\ pc' = [pc EXCEPT ![b] = IF pc[b] = "grown" THEN "predicted" ELSE "repredicted"]
  /\ UNCHANGED <<trainingData, args, error, tree, stack, calls, rng, treeInfo, rebuilt,
                 oobVars, access, reconstruction, sizes>>

\* forestryTree::getTreeInfo.
getTreeInfo(b) ==
  /\ pc[b] \in {"predicted", "repredicted"}
  /\ treeInfo' = [treeInfo EXCEPT ![b][Current(b)] = treeInfoOf(ObjectOf(b, Current(b)))]
  /\ pc' = [pc EXCEPT ![b] = IF pc[b] = "predicted" THEN "flattened" ELSE "reflattened"]
  /\ UNCHANGED <<trainingData, args, error, tree, stack, calls, rng, rebuilt, xNew,
                 outputPrediction, oobVars, access, reconstruction, sizes>>

\* forestryTree::reconstruct_tree, called with the hyperparameters of the
\* build and the record of its grown tree.
reconstruct_tree(b) ==
  /\ pc[b] = "flattened"
  /\ LET info == treeInfo[b]["grown"]
         built == recursive_reconstruction(
                    [var_ids |-> info.var_ids,
                     split_vals |-> info.split_vals,
                     naLeftCounts |-> info.naLeftCounts,
                     naRightCounts |-> info.naRightCounts,
                     naDefaultDirections |-> info.naDefaultDirections,
                     weights |-> info.weights,
                     root |-> (Root :> NewNode),
                     nodeCount |-> InitialNodeCount,
                     consumed |-> <<>>,
                     pastEnd |-> FALSE], Root)
     IN  /\ reconstruction' = [reconstruction EXCEPT ![b] =
               [consumed |-> built.consumed,
                remaining |-> [v \in RecordVectors |-> built[v]],
                pastEnd |-> built.pastEnd]]
         /\ rebuilt' = [rebuilt EXCEPT ![b] =
           [mtry |-> args.mtry,
            minNodeSizeSpt |-> args.minNodeSizeSpt,
            minNodeSizeAvg |-> args.minNodeSizeAvg,
            minNodeSizeToSplitSpt |-> args.minNodeSizeToSplitSpt,
            minNodeSizeToSplitAvg |-> args.minNodeSizeToSplitAvg,
            minSplitGain |-> args.minSplitGain,
            maxDepth |-> args.maxDepth,
            interactionDepth |-> args.interactionDepth,
            hasNas |-> args.hasNas,
            naDirection |-> args.naDirection,
            overfitPenalty |-> args.overfitPenalty,
            averagingSampleIndex |-> [i \in 1..Len(info.averagingSampleIndex) |->
                                        fromOneBased(info.averagingSampleIndex[i])],
            splittingSampleIndex |-> [i \in 1..Len(info.splittingSampleIndex) |->
                                        fromOneBased(info.splittingSampleIndex[i])],
            root |-> built.root,
            nodeCount |-> built.nodeCount,
            seed |-> info.seed]]
  /\ pc' = [pc EXCEPT ![b] = "reconstructed"]
  /\ UNCHANGED <<trainingData, args, error, tree, stack, calls, rng, treeInfo, xNew,
                 outputPrediction, oobVars, access, sizes>>

\* An accessor of RFNode called on a node of the grown tree.
RFNodeAccessor(b) ==
  /\ pc[b] = "grown"
  /\ \E p \in DOMAIN tree[b].root, accessor \in DOMAIN SplitAccessors \cup FieldAccessors :
       access' = [access EXCEPT ![b] =
         [node |-> p, accessor |-> accessor,
          thrown |-> thrownBy(tree[b].root[p], accessor)]]
  /\ pc' = [pc EXCEPT ![b] = "accessed"]
  /\ UNCHANGED <<trainingData, args, error, tree, stack, calls, rng, treeInfo, rebuilt,
                 xNew, outputPrediction, oobVars, reconstruction, sizes>>

Grow(b) ==
  \/ forestryTree(b)
  \/ recursivePartition(b)
  \/ recursivePartitionRight(b)
  \/ recursivePartitionReturn(b)

Use(b) ==
  \/ predict(b)
  \/ getTreeInfo(b)
  \/ reconstruct_tree(b)

Next == \E b \in Builds : Grow(b) \/ Use(b)

Spec == Init /\ [][Next]_vars

\* The accessors of the nodes, on the trees of one seed grown without a ridge
\* model.
InitNode == Init /\ args.seed = 0 /\ ~args.linear /\ args.minNodeSizeToSplitSpt = 1

NextNode ==
  \E b \in Builds :
    \/ forestryTree(b)
    \/ recursivePartition(b)
    \/ recursivePartitionRight(b)
    \/ recursivePartitionReturn(b)
    \/ RFNodeAccessor(b)

SpecNode == InitNode /\ [][NextNode]_vars

\* Growth under a monotone constraint on the numeric feature: outcomes that
\* rise with the row, that rise with rows 1 and 2 exchanged, or that start
\* 4, 0, 2 and rise from there; all rows in both sets, or an honest pair of
\* disjoint sets.
MonotoneOutcome(pattern, r) ==
  IF pattern = "swapped" /\ r \in {1, 2} THEN 2 * (3 - r)
  ELSE IF pattern = "crossed" /\ r < 3 THEN (IF r = 0 THEN 4 ELSE 2 * (r - 1))
  ELSE IF pattern = "crossed" THEN 2 * r + 2
  ELSE 2 * r

MonotoneFrames ==
  { [df EXCEPT !.y = [r \in Rows |-> MonotoneOutcome(pattern, r)],
               !.monotonicConstraints = [f \in Features |-> IF f = 0 THEN c ELSE 0],
               !.monotoneAvg = monotoneAvg]
    : df \in {d \in DataFrames : ~HasMissing(d)},
      pattern \in {"rising", "swapped", "crossed"}, c \in {-1, 1},
      monotoneAvg \in BOOLEAN }

MonotoneIndexMenu ==
  { [splittingSampleIndex |-> AllRows, averagingSampleIndex |-> AllRows],
    [splittingSampleIndex |-> <<0, 3>>, averagingSampleIndex |-> <<1, 2>>] }

InitMono ==
  /\ trainingData \in MonotoneFrames
  /\ args \in { [a EXCEPT !.splittingSampleIndex = ix.splittingSampleIndex,
                          !.averagingSampleIndex = ix.averagingSampleIndex]
                : a \in {c \in ConstructorArgs(trainingData) :
                           /\ ~c.naDirection /\ ~c.hasNas
                           /\ c.minNodeSizeSpt = 1 /\ c.minNodeSizeToSplitSpt = 1
                           /\ c.minSplitGain = RInt(0)},
                  ix \in MonotoneIndexMenu }
  /\ BeforeConstruction({1})

NextGrowth ==
  \E b \in Builds :
    \/ forestryTree(b)
    \/ recursivePartition(b)
    \/ recursivePartitionRight(b)
    \/ recursivePartitionReturn(b)

SpecMono == InitMono /\ [][NextGrowth]_vars

\* Ten rows with one numeric feature and the outcome 1, .., 10.  The feature
\* values 1, .., 10 are doubled, so that the midpoint of two adjacent values is
\* an integer: the cut 5.5 is the cut 11.
TenRows == [i \in 1..10 |-> i - 1]

TenRowFrame ==
  [x |-> (0 :> [r \in Range(TenRows) |-> 2 * (r + 1)]),
   y |-> [r \in Range(TenRows) |-> r + 1],
   linObs |-> [r \in Range(TenRows) |-> <<r>>],
   catCols |-> {},
   groups |-> [r \in Range(TenRows) |-> 0],
   monotonicConstraints |-> (0 :> 0),
   monotoneAvg |-> FALSE,
   featureWeights |-> <<1>>,
   featureWeightsVariables |-> <<0>>,
   deepFeatureWeights |-> <<1>>,
   deepFeatureWeightsVariables |-> <<0>>]

\* Trees grown on the ten rows, all of them in both sets, without a ridge
\* model.
InitTenRows ==
  /\ trainingData = TenRowFrame
  /\ args \in { [mtry |-> 1,
                  minNodeSizeSpt |-> sz.minNodeSizeSpt,
                  minNodeSizeAvg |-> sz.minNodeSizeAvg,
                  minNodeSizeToSplitSpt |-> sz.minNodeSizeToSplitSpt,
                  minNodeSizeToSplitAvg |-> sz.minNodeSizeToSplitAvg,
                  minSplitGain |-> RInt(0),
                  maxDepth |-> maxDepth,
                  interactionDepth |-> 1,
                  splittingSampleIndex |-> TenRows,
                  averagingSampleIndex |-> TenRows,
                  splitMiddle |-> FALSE,
                  maxObs |-> Len(TenRows) + 1,
                  hasNas |-> FALSE,
                  naDirection |-> naDirection,
                  linear |-> FALSE,
                  overfitPenalty |-> 1,
                  seed |-> seed]
                : sz \in SizeMenu, maxDepth \in 1..MaxDepthBound,
                  naDirection \in BOOLEAN, seed \in SeedMenu }
  /\ BeforeConstruction({1})

SpecTenRows == InitTenRows /\ [][NextGrowth]_vars

\* ------------------------------------------------------ out-of-bag indices

\* std::set_union of two sorted vectors: a linear merge in which an element
\* occurring m times in a and n times in b occurs max(m, n) times.
RECURSIVE set_union(_, _)
set_union(a, b) ==
  IF a = <<>> THEN b
  ELSE IF b = <<>> THEN a
  ELSE IF Head(a) < Head(b) THEN <<Head(a)>> \o set_union(Tail(a), b)
  ELSE IF Head(b) < Head(a) THEN <<Head(b)>> \o set_union(a, Tail(b))
  ELSE <<Head(a)>> \o set_union(Tail(a), Tail(b))

\* std::set_difference of two sorted vectors: a linear merge in which an
\* element occurring m times in a and n times in b occurs max(m - n, 0) times.
RECURSIVE set_difference(_, _)
set_difference(a, b) ==
  IF a = <<>> THEN <<>>
  ELSE IF b = <<>> THEN a
  ELSE IF Head(a) < Head(b) THEN <<Head(a)>> \o set_difference(Tail(a), b)
  ELSE IF Head(b) < Head(a) THEN set_difference(a, Tail(b))
  ELSE set_difference(Tail(a), Tail(b))

\* The vectors allIndex the OOB computations are called with: short vectors
\* in any order, with or without repeated entries, and every row.
RowVectors(maxLen) ==
  UNION {[1..n -> Rows] : n \in 1..maxLen}

AllIndexMenu ==
  RowVectors(2) \cup {AllRows, [i \in 1..NumRows |-> NumRows - i], <<2, 0, 2>>}

\* The group memberships of the data the OOB computations run on: none,
\* adjacent rows in pairs, or the first two rows in one group and every
\* other row in a group of its own.
GroupMenu ==
  { NoGroups, [r \in Rows |-> (r \div 2) + 1], [r \in Rows |-> IF r < 2 THEN 1 ELSE r] }

\* The training_idx vectors getOOBPrediction is called with: none, rows
\* without repetition in any order, or rows of which one is listed twice.
TrainingIdxMenu ==
  { <<>>, <<2, 0>>, [i \in 1..(NumRows - 1) |-> NumRows - i], <<2, 0, 2>> }

\* What the computations do to the tree and to the vectors of the caller:
\* spt and avg are the index vectors as the call leaves them, all is
\* allIndex as the call leaves it, out is what it appends.
oobStandard(tr, all) ==
  [spt |-> sort(tr.splittingSampleIndex),
   avg |-> sort(tr.averagingSampleIndex),
   all |-> sort(all),
   out |-> set_difference(sort(all),
             set_union(sort(tr.splittingSampleIndex), sort(tr.averagingSampleIndex)))]

oobHonest(tr, all) ==
  [spt |-> tr.splittingSampleIndex,
   avg |-> sort(tr.averagingSampleIndex),
   all |-> sort(all),
   out |-> set_difference(sort(all), sort(tr.averagingSampleIndex))]

\* The groups of the rows of an index vector.
groupsOf(groupMemberships, idx) ==
  {groupMemberships[idx[i]] : i \in 1..Len(idx)}

\* The std::set in_sample_groups of getOOGIndex: the groups of the averaging
\* rows, and those of the splitting rows if doubleOOB.
in_sample_groups(tr, groupMemberships, doubleOOB) ==
  groupsOf(groupMemberships, sort(tr.averagingSampleIndex))
    \cup (IF doubleOOB THEN groupsOf(groupMemberships, tr.splittingSampleIndex) ELSE {})

\* The last loop of getOOGIndex: the entries of allIndex whose group is not
\* among the groups, in the order of allIndex.
outOfGroups(all, groupMemberships, groups) ==
  SelectSeq(all, LAMBDA i : groupMemberships[i] \notin groups)

\* A grouped computation that walks allIndex as it was handed over.
oobGroupedAsHanded(tr, groupMemberships, all, doubleOOB) ==
  [spt |-> tr.splittingSampleIndex,
   avg |-> sort(tr.averagingSampleIndex),
   all |-> all,
   out |-> outOfGroups(all, groupMemberships,
                       in_sample_groups(tr, groupMemberships, doubleOOB))]

\* forestryTree::getOOGIndex on the vectors.
oobGrouped(tr, groupMemberships, all, doubleOOB) ==
  [spt |-> tr.splittingSampleIndex,
   avg |-> sort(tr.averagingSampleIndex),
   all |-> sort(all),
   out |-> outOfGroups(sort(all), groupMemberships,
                       in_sample_groups(tr, groupMemberships, doubleOOB))]

\* The effect of a call on the index vectors of the tree and on those of the
\* caller.
oobCall(b, call, result) ==
  /\ tree' = [tree EXCEPT ![b].splittingSampleIndex = result.spt,
                          ![b].averagingSampleIndex = result.avg]
  /\ allIndex' = [allIndex EXCEPT ![b] = result.all]
  /\ outputOOBIndex' = [outputOOBIndex EXCEPT ![b] = call.before \o result.out]
  /\ oob' = [oob EXCEPT ![b] = call]
  /\ pc' = [pc EXCEPT ![b] = "oobDone"]
  /\ UNCHANGED <<trainingData, args, error, stack, calls, rng, treeInfo, rebuilt,
                 xNew, outputPrediction, access, reconstruction, sizes>>

\* A call made by the owner of the vectors allIndex and outputOOBIndex.
DirectCall(b, regime, all) ==
  [NoCall EXCEPT !.regime = regime, !.before = outputOOBIndex[b], !.called = all,
                 !.caller = "direct"]

\* forestryTree::getOOBindex.
getOOBindex(b) ==
  /\ pc[b] = "indexed"
  /\ \E all \in AllIndexMenu :
       oobCall(b, DirectCall(b, "standard", all), oobStandard(tree[b], all))

\* forestryTree::getDoubleOOBIndex.
getDoubleOOBIndex(b) ==
  /\ pc[b] = "indexed"
  /\ \E all \in AllIndexMenu :
       oobCall(b, DirectCall(b, "double", all), oobStandard(tree[b], all))

\* forestryTree::getOOBhonestIndex.
getOOBhonestIndex(b) ==
  /\ pc[b] = "indexed"
  /\ \E all \in AllIndexMenu :
       oobCall(b, DirectCall(b, "honest", all), oobHonest(tree[b], all))

\* forestryTree::getOOGIndex.
getOOGIndex(b) ==
  /\ pc[b] = "indexed"
  /\ \E all \in AllIndexMenu, doubleOOB \in BOOLEAN :
       oobCall(b, [DirectCall(b, "grouped", all) EXCEPT !.doubleOOB = doubleOOB],
               oobGrouped(tree[b], trainingData.groups, all, doubleOOB))

\* The regime getOOBPrediction computes the OOB rows by.
regimeOf(df, OOBhonest, doubleOOB) ==
  IF df.groups[0] # 0 THEN "grouped"
  ELSE IF OOBhonest THEN (IF doubleOOB THEN "double" ELSE "honest")
  ELSE "standard"

\* The flag passed on unchanged.
doubleOOBAsGiven(OOBhonest, doubleOOB) == doubleOOB

\* The doubleOOB argument getOOBPrediction calls getOOGIndex with.
doubleOOBOfCall(OOBhonest, doubleOOB) == IF OOBhonest THEN doubleOOB ELSE TRUE

\* The index computation getOOBPrediction calls, on its allIndex.
oobOfRegime(tr, df, regime, all, OOBhonest, doubleOOB) ==
  IF regime = "grouped"
  THEN oobGrouped(tr, df.groups, all, doubleOOBOfCall(OOBhonest, doubleOOB))
  ELSE IF regime = "honest" THEN oobHonest(tr, all)
  ELSE oobStandard(tr, all)

\* map_trainidx.at(row): the last place of the row in training_idx, from 0.
map_trainidx(training_idx, row) ==
  (CHOOSE i \in 1..Len(training_idx) :
     /\ training_idx[i] = row
     /\ \A j \in (i + 1)..Len(training_idx) : training_idx[j] # row) - 1

\* The row taken for its place.
outputPlaceOfRow(training_idx, row) == row

\* The place of an OOB row in the output vectors of getOOBPrediction.
outputPlace(training_idx, row) ==
  IF training_idx = <<>> THEN row ELSE map_trainidx(training_idx, row)

\* The batch xnew of getOOBPrediction: the OOB observations.  When
\* training_idx is given, xNew holds the training rows it lists, and the
\* observation of a row is read at the row's place in training_idx.
oobBatch(df, training_idx, OOBIndex) ==
  LET rowAt(i) ==
        IF training_idx = <<>> THEN OOBIndex[i]
        ELSE training_idx[map_trainidx(training_idx, OOBIndex[i]) + 1]
  IN  [x |-> [f \in Features |-> [i \in 1..Len(OOBIndex) |-> df.x[f][rowAt(i)]]],
       linObs |-> [i \in 1..Len(OOBIndex) |-> df.linObs[rowAt(i)]]]

\* The last loop of getOOBPrediction: the prediction of every OOB row added
\* to the row's place of outputOOBPrediction, and its count incremented.
RECURSIVE addOOBPredictions(_, _, _, _)
addOOBPredictions(call, training_idx, OOBIndex, predictions) ==
  IF OOBIndex = <<>> THEN call
  ELSE addOOBPredictions(
         [call EXCEPT
            !.outputOOBPrediction[outputPlace(training_idx, Head(OOBIndex))] =
               RAdd(@, Head(predictions).outputPrediction),
            !.outputOOBCount[outputPlace(training_idx, Head(OOBIndex))] = @ + 1],
         training_idx, Tail(OOBIndex), Tail(predictions))

\* The output vectors getOOBPrediction is handed: one place per row, or per
\* entry of training_idx, each holding the value.
outputOfCaller(training_idx, value) ==
  [t \in 0..((IF training_idx = <<>> THEN NumRows ELSE Len(training_idx)) - 1) |-> value]

\* forestryTree::getOOBPrediction: allIndex is every row or training_idx;
\* the OOB rows are computed by the regime of the data and the flags, into a
\* local vector; predict (not linear) runs on their observations; the
\* predictions are added to the output vectors, which hold zeros or what an
\* earlier tree added to every place.
getOOBPrediction(b) ==
  /\ pc[b] = "indexed"
  /\ \E OOBhonest \in BOOLEAN, doubleOOB \in BOOLEAN, training_idx \in TrainingIdxMenu,
        earlier \in 0..1 :
       LET all == IF training_idx = <<>> THEN AllRows ELSE training_idx
           regime == regimeOf(trainingData, OOBhonest, doubleOOB)
           result == oobOfRegime(tree[b], trainingData, regime, all, OOBhonest, doubleOOB)
           predictions == predictBatch(tree[b], trainingData,
                            oobBatch(trainingData, training_idx, result.out), FALSE)
       IN  oobCall(b,
             addOOBPredictions(
               [NoCall EXCEPT !.regime = regime, !.called = all,
                              !.caller = "getOOBPrediction",
                              !.OOBhonest = OOBhonest, !.doubleOOB = doubleOOB,
                              !.training_idx = training_idx,
                              !.OOBIndex = result.out,
                              !.currentTreePrediction = predictions,
                              !.predictionBefore = outputOfCaller(training_idx, RInt(earlier)),
                              !.countBefore = outputOfCaller(training_idx, earlier),
                              !.outputOOBPrediction = outputOfCaller(training_idx, RInt(earlier)),
                              !.outputOOBCount = outputOfCaller(training_idx, earlier)],
               training_idx, result.out, predictions),
             result)

\* A tree whose root was sealed as a leaf, with its two index vectors, on
\* data with or without groups; and the output vector of the caller, empty
\* or not.
InitOOB ==
  /\ \E groups \in GroupMenu :
       trainingData = [(CHOOSE df \in DataFrames : TRUE) EXCEPT !.groups = groups]
  /\ \E spt \in RowVectors(2), avg \in RowVectors(2) :
       /\ args = [(CHOOSE a \in ConstructorArgs(trainingData) : TRUE) EXCEPT
                    !.splittingSampleIndex = spt, !.averagingSampleIndex = avg]
       /\ tree = [b \in Builds |->
                   IF b = 1
                   THEN [EmptyTree EXCEPT
                           !.splittingSampleIndex = spt,
                           !.averagingSampleIndex = avg,
                           !.root = (Root :> sealedLeaf(NewNode, trainingData, avg, spt,
                                       assignNodeId(InitialNodeCount), FALSE, 0)),
                           !.nodeCount = assignNodeId(InitialNodeCount)]
                   ELSE EmptyTree]
  /\ pc = [b \in Builds |-> IF b = 1 THEN "indexed" ELSE "off"]
  /\ error = [b \in Builds |-> ""]
  /\ stack = [b \in Builds |-> <<>>]
  /\ calls = [b \in Builds |-> <<>>]
  /\ rng = [b \in Builds |-> RngSeed(args.seed + 1)]
  /\ treeInfo = [b \in Builds |-> [o \in Objects |-> <<>>]]
  /\ rebuilt = [b \in Builds |-> EmptyTree]
  /\ xNew = [b \in Builds |-> <<>>]
  /\ outputPrediction = [b \in Builds |-> [o \in Objects |-> <<>>]]
  /\ allIndex = [b \in Builds |-> <<>>]
  /\ \E out \in {<<>>, <<NumRows>>} :
       outputOOBIndex = [b \in Builds |-> IF b = 1 THEN out ELSE <<>>]
  /\ oob = [b \in Builds |-> NoCall]
  /\ access = [b \in Builds |-> NoAccess]
  /\ reconstruction = [b \in Builds |-> NoReconstruction]
  /\ sizes = NoSizes

NextOOB ==
  \E b \in Builds :
    \/ getOOBindex(b)
    \/ getDoubleOOBIndex(b)
    \/ getOOBhonestIndex(b)
    \/ getOOGIndex(b)
    \/ getOOBPrediction(b)

SpecOOB == InitOOB /\ [][NextOOB]_vars

\* --------------------------------------------------------- two builds

\* Two trees are built one after the other from the same training data, the
\* same arguments and generators in the same initial state.
InitDet == InitOf(Builds)

Turn(b) == \A c \in Builds : c < b => pc[c] \in {"flattened", "error"}

NextDet ==
  \E b \in Builds :
    \/ Turn(b) /\ forestryTree(b)
    \/ Turn(b) /\ recursivePartition(b)
    \/ Turn(b) /\ recursivePartitionRight(b)
    \/ Turn(b) /\ recursivePartitionReturn(b)
    \/ Turn(b) /\ predict(b)
    \/ Turn(b) /\ getTreeInfo(b)

SpecDet == InitDet /\ [][NextDet]_vars

\* Two trees are built one after the other from the same training data and
\* the same arguments but for naDirection, which the second build negates;
\* the generators start in the same state.
InitNaDirection == InitOf(Builds)

NextNaDirection ==
  \/ forestryTree(1)
  \/ pc[1] = "grown" /\ forestryTreeToggled(2)
  \/ \E b \in Builds :
       \/ recursivePartition(b)
       \/ recursivePartitionRight(b)
       \/ recursivePartitionReturn(b)

SpecNaDirection == InitNaDirection /\ [][NextNaDirection]_vars

\* ------------------------------------------------------------ termination

\* Sampling weights under which the growth is followed to its end: equal
\* weights, a weight of feature 1 so small beside that of feature 0 that no
\* value of the generator falls on it, and a deep weight of 0.
TerminationWeightMenu ==
  { [featureWeights |-> <<1, 1>>, deepFeatureWeights |-> <<1, 1>>],
    [featureWeights |-> <<15, 1>>, deepFeatureWeights |-> <<1, 1>>],
    [featureWeights |-> <<1, 1>>, deepFeatureWeights |-> <<1, 0>>] }

\* One tree is constructed on data with these weights, by one thread that
\* runs the constructor as far as it goes.
InitTermination ==
  /\ trainingData \in
       { [df EXCEPT !.featureWeights = w.featureWeights,
                    !.deepFeatureWeights = w.deepFeatureWeights]
         : df \in {d \in DataFrames : d.featureWeights # <<>>},
           w \in TerminationWeightMenu }
  /\ args \in {a \in ConstructorArgs(trainingData) : a.seed = 0 /\ ~a.naDirection}
  /\ BeforeConstruction({1})

\* The thread has a step to take: the constructor has been called and has not
\* returned, and is not in a loop of sampleFeatures that never ends.  This is
\* ENABLED NextGrowth: the constructor can be run on every build that is
\* "new", and one of the three steps of recursivePartition on every frame.
Running ==
  \E b \in Builds :
    \/ pc[b] = "new"
    \/ pc[b] = "growing" /\ stack[b] # <<>>

\* WF_vars(NextGrowth) with Running for ENABLED NextGrowth: the thread does
\* not stop while it has a step to take.
Progress == []<>(~Running) \/ []<><<NextGrowth>>_vars

SpecTermination == InitTermination /\ [][NextGrowth]_vars /\ Progress

\* ------------------------------------------------- the empty-partition guard

\* The sizes the four partitions of a node are drawn from: an empty
\* partition, small ones, and partitions of 2^12, 2^16 and 2^20 rows.
PartitionSizes == {0, 1, 3, 4096, 65536, 1048576}

\* The step of recursivePartition between splitData and the recursive calls,
\* on one node whose partitions have the four sizes: the node is sealed as a
\* leaf iff the guard fires.
degenerateGuard ==
  /\ ~sizes.applied
  /\ \E lAvgSize, rAvgSize, lSplSize, rSplSize \in PartitionSizes :
       sizes' = [applied |-> TRUE,
                 lAvgSize |-> lAvgSize,
                 rAvgSize |-> rAvgSize,
                 lSplSize |-> lSplSize,
                 rSplSize |-> rSplSize,
                 sealed |-> emptyPartition(lAvgSize, rAvgSize, lSplSize,
                                           rSplSize)]
  /\ UNCHANGED <<trainingData, args, pc, error, tree, stack, calls, rng,
                 treeInfo, rebuilt, xNew, outputPrediction, oobVars, access,
                 reconstruction>>

\* The guard is applied during the growth of a tree: the states before a
\* construction.
InitGuard == InitTenRows

NextGuard == degenerateGuard

SpecGuard == InitGuard /\ [][NextGuard]_vars

\* ---------------------------------------------------------------- claims

\* The builds whose tree is grown.
GrownBuilds ==
  {b \in Builds : pc[b] \in {"grown", "predicted", "flattened", "reconstructed",
                              "repredicted", "reflattened"}}

\* The builds under construction or grown.
StartedBuilds == {b \in Builds : pc[b] = "growing"} \cup GrownBuilds

KindPositions(root, kind) == {p \in DOMAIN root : root[p].kind = kind}

\* Depth by position: the root at depth 0, a child one deeper than its parent.
RECURSIVE DepthOf(_)
DepthOf(p) == IF p = Root THEN 0 ELSE 1 + DepthOf(p \div 2)

\* The leaves below p from left to right.
RECURSIVE LeafOrder(_, _)
LeafOrder(root, p) ==
  IF root[p].kind = "split"
  THEN LeafOrder(root, LeftOf(p)) \o LeafOrder(root, RightOf(p))
  ELSE <<p>>

\* left and right partition whole: no row on both sides, and every entry of
\* whole on exactly one side as often as it occurs in whole.
Partitions(whole, left, right) ==
  /\ Range(left) \cap Range(right) = {}
  /\ Range(left) \cup Range(right) = Range(whole)
  /\ \A r \in Range(whole) : Count(left, r) + Count(right, r) = Count(whole, r)

\* C1: at every split node the averaging and the splitting index sets passed
\* to the two children are disjoint and together make up the set that reached
\* the node, whatever hasNas, linear, the kind of the split feature and the NA
\* direction are.
C1_ChildrenPartitionNode ==
  \A b \in StartedBuilds : \A p \in KindPositions(tree[b].root, "split") :
    /\ Partitions(calls[b][p].averagingSampleIndex,
                  calls[b][LeftOf(p)].averagingSampleIndex,
                  calls[b][RightOf(p)].averagingSampleIndex)
    /\ Partitions(calls[b][p].splittingSampleIndex,
                  calls[b][LeftOf(p)].splittingSampleIndex,
                  calls[b][RightOf(p)].splittingSampleIndex)

\* Whether some feature has an admissible split on the sets of a call.
HasAdmissibleSplit(b, c) ==
  ~isnan(selectBestFeature(trainingData, RootBounds @@ tree[b], args.linear, <<0, 1>>,
                           c.averagingSampleIndex, c.splittingSampleIndex,
                           0).bestSplitValue)

\* C2: every leaf, other than those sealed because no admissible split
\* exists, holds at least minNodeSizeAvg averaging and at least minNodeSizeSpt
\* splitting observations, for every accepted combination of minimum sizes.
C2_LeavesNotUndersized ==
  \A b \in GrownBuilds : \A p \in KindPositions(tree[b].root, "leaf") :
    \/ calls[b][p].sealedBy = "nosplit"
    \/ ~HasAdmissibleSplit(b, calls[b][p])
    \/ /\ tree[b].root[p].averageCount >= tree[b].minNodeSizeAvg
       /\ tree[b].root[p].splitCount >= tree[b].minNodeSizeSpt

\* C3: the depth of every leaf is at most maxDepth, and no node at depth
\* maxDepth is a split node (nor has children).
C3_DepthBounded ==
  \A b \in StartedBuilds : \A p \in DOMAIN tree[b].root :
    /\ DepthOf(p) <= tree[b].maxDepth
    /\ DepthOf(p) = tree[b].maxDepth =>
         /\ tree[b].root[p].kind # "split"
         /\ LeftOf(p) \notin DOMAIN tree[b].root
         /\ RightOf(p) \notin DOMAIN tree[b].root

\* A grown tree with a leaf at depth maxDepth > 1 that holds two rows which an
\* admissible split would separate.
C3_Witness ==
  \E b \in GrownBuilds : \E p \in KindPositions(tree[b].root, "leaf") :
    /\ tree[b].maxDepth > 1
    /\ DepthOf(p) = tree[b].maxDepth
    /\ HasAdmissibleSplit(b, calls[b][p])
    /\ tree[b].root[p].averageCount >= tree[b].minNodeSizeAvg
    /\ tree[b].root[p].splitCount >= tree[b].minNodeSizeSpt

\* The ids of the leaves of a tree are 1, 2, ... in the order the leaves are
\* sealed, left subtree first, and the counter holds their number.
IdsInSealingOrder(tr) ==
  /\ tr.nodeCount = Len(LeafOrder(tr.root, Root))
  /\ \A i \in 1..Len(LeafOrder(tr.root, Root)) :
       tr.root[LeafOrder(tr.root, Root)[i]].nodeId = i

\* C4: in a grown tree and in a rebuilt one the node ids are distinct, are
\* exactly 1..nodeCount, and follow the sealing order (left subtree before
\* right); a tree and the tree rebuilt from its record give corresponding
\* leaves the same id.
C4_NodeIds ==
  /\ \A b \in StartedBuilds :
       /\ {tree[b].root[p].nodeId : p \in KindPositions(tree[b].root, "leaf")}
            = 1..tree[b].nodeCount
       /\ Cardinality(KindPositions(tree[b].root, "leaf")) = tree[b].nodeCount
  /\ \A b \in GrownBuilds : IdsInSealingOrder(tree[b])
  /\ \A b \in Builds : pc[b] \in {"reconstructed", "repredicted", "reflattened"} =>
       /\ IdsInSealingOrder(rebuilt[b])
       /\ KindPositions(rebuilt[b].root, "leaf") = KindPositions(tree[b].root, "leaf")
       /\ \A p \in KindPositions(tree[b].root, "leaf") :
            rebuilt[b].root[p].nodeId = tree[b].root[p].nodeId

\* A tree of three or more leaves has been rebuilt from its record.
C4_Witness ==
  \E b \in Builds :
    /\ pc[b] = "reconstructed"
    /\ rebuilt[b].nodeCount >= 3

\* The splitting observations of a call that are missing on feature f.
MissingAt(c, f) ==
  Len(SelectSeq(c.splittingSampleIndex, LAMBDA r : isnan(trainingData.x[f][r])))

\* C5: at every split node naLeftCount + naRightCount is the number of
\* splitting observations that reached the node and are missing on its split
\* feature, whatever hasNas, linear and the NA direction are.
C5_NaCountsAddUp ==
  \A b \in StartedBuilds : \A p \in KindPositions(tree[b].root, "split") :
    tree[b].root[p].naLeftCount + tree[b].root[p].naRightCount
      = MissingAt(calls[b][p], tree[b].root[p].splitFeature)

\* C6: flattening the tree rebuilt from a record gives the record back:
\* var_ids, split_vals, naLeftCounts, naRightCounts, naDefaultDirections,
\* weights, seed and the two 1-based index vectors are the same.
C6_FlattenReconstructIdentity ==
  \A b \in Builds : pc[b] = "reflattened" =>
    treeInfo[b]["rebuilt"] = treeInfo[b]["grown"]

\* The record of a tree of three or more leaves, grown on index vectors that
\* differ from each other, has been rebuilt and flattened again.
C6_Witness ==
  \E b \in Builds :
    /\ pc[b] = "reflattened"
    /\ Len(treeInfo[b]["grown"].weights) >= 3
    /\ treeInfo[b]["grown"].averagingSampleIndex
         # treeInfo[b]["grown"].splittingSampleIndex

\* The predictions alone, row by row.
Predictions(out) == [i \in DOMAIN out |-> out[i].outputPrediction]

\* C7: for every tree that can be grown, with constant or with linear leaves,
\* and every batch, the tree rebuilt from the record of the original predicts
\* for every row what the original predicts.
C7_RebuiltPredictsTheSame ==
  \A b \in Builds : pc[b] \in {"repredicted", "reflattened"} =>
    Predictions(outputPrediction[b]["rebuilt"])
      = Predictions(outputPrediction[b]["grown"])

\* The rows of the batch a build predicted, by number.
PredictedRows(b) == DOMAIN outputPrediction[b]["grown"]

\* C8: on training data without missing values, walking the grown tree with a
\* training row of the averaging set ends in the leaf the partitioner put the
\* row in.
C8_WalkAgreesWithPartition ==
  \A b \in GrownBuilds :
    (/\ ~HasMissing(trainingData)
     /\ PredictedRows(b) # {}
     /\ xNew[b] = TrainingBatch(trainingData)) =>
      \A p \in KindPositions(tree[b].root, "leaf") :
        \A r \in Range(calls[b][p].averagingSampleIndex) :
          outputPrediction[b]["grown"][r + 1].terminalNode = tree[b].root[p].nodeId

\* The training rows were walked through a tree of three leaves that splits on
\* the categorical feature and on the numeric one.
C8_Witness ==
  \E b \in GrownBuilds :
    /\ ~HasMissing(trainingData)
    /\ PredictedRows(b) # {}
    /\ xNew[b] = TrainingBatch(trainingData)
    /\ tree[b].nodeCount >= 3
    /\ \E p, q \in KindPositions(tree[b].root, "split") :
         /\ tree[b].root[p].splitFeature \in trainingData.catCols
         /\ tree[b].root[q].splitFeature \notin trainingData.catCols

UngroupedCalls ==
  {b \in Builds : pc[b] = "oobDone" /\ oob[b].regime \in {"standard", "double", "honest"}}

\* What a finished OOB call appended to the output vector.
Appended(b) ==
  SubSeq(outputOOBIndex[b], Len(oob[b].before) + 1, Len(outputOOBIndex[b]))

\* The rows an OOB regime excludes.
Excluded(b) ==
  IF oob[b].regime = "honest" THEN Range(tree[b].averagingSampleIndex)
  ELSE Range(tree[b].averagingSampleIndex) \cup Range(tree[b].splittingSampleIndex)

\* The call appended, after what the output held, exactly the elements of
\* allIndex outside the excluded rows.
AppendsDifference(b) ==
  /\ SubSeq(outputOOBIndex[b], 1, Len(oob[b].before)) = oob[b].before
  /\ Range(Appended(b)) = Range(oob[b].called) \ Excluded(b)
  /\ Range(Appended(b)) \cap Excluded(b) = {}

NoRepeats(s) == \A i, j \in DOMAIN s : s[i] = s[j] => i = j

\* C10 as stated: for every allIndex and all index vectors, the standard and
\* the double-honest computation append exactly the elements of allIndex in
\* neither index vector, the honest one those not in the averaging vector.
C10_Original ==
  \A b \in UngroupedCalls : AppendsDifference(b)

\* C10: for every allIndex without repeated entries, in any order, and all
\* index vectors, with or without repeated entries and in any order, the
\* standard and the double-honest computation append exactly the elements of
\* allIndex in neither index vector, the honest one those not in the averaging
\* vector.
C10_OOBIsSetDifference ==
  \A b \in UngroupedCalls : NoRepeats(oob[b].called) => AppendsDifference(b)

\* A call on an unsorted allIndex without repeats, with unsorted index vectors
\* one of which repeats a row, appended a row to an output that held one.
C10_Witness ==
  \E b \in UngroupedCalls :
    /\ NoRepeats(oob[b].called)
    /\ oob[b].called # sort(oob[b].called)
    /\ oob[b].before # <<>>
    /\ Appended(b) # <<>>
    /\ ~NoRepeats(tree[b].averagingSampleIndex)
    /\ Excluded(b) \cap Range(oob[b].called) # {}


\* The builds on which getOOBPrediction has computed its OOB rows by groups.
GroupedBuilds ==
  {b \in Builds : oob[b].caller = "getOOBPrediction" /\ oob[b].regime = "grouped"}

\* The groups of the observations of the tree's two sampled sets.
SampledGroups(b) ==
  groupsOf(trainingData.groups, tree[b].splittingSampleIndex)
    \cup groupsOf(trainingData.groups, tree[b].averagingSampleIndex)

\* An observation of allIndex is returned iff its group is not the group of
\* any sampled observation.
ReturnsOutOfGroup(b) ==
  \A r \in Range(oob[b].called) :
    r \in Range(outputOOBIndex[b]) <=> trainingData.groups[r] \notin SampledGroups(b)

\* C11 as stated: under the grouped regime, for every value of OOBhonest and
\* doubleOOB, an observation of allIndex is returned if and only if its
\* group is not the group of any observation of the splitting set or of the
\* averaging set.
C11_Original == \A b \in GroupedBuilds : ReturnsOutOfGroup(b)

\* C11, amended: under the grouped regime, when OOBhonest is false or
\* doubleOOB is true, an observation of allIndex is returned if and only if
\* its group is not the group of any observation of the splitting set or of
\* the averaging set.
C11_GroupedOOB ==
  \A b \in GroupedBuilds : (~oob[b].OOBhonest \/ oob[b].doubleOOB) => ReturnsOutOfGroup(b)

\* A grouped call that is not honest-only returns a row and holds back
\* another that is not sampled itself but shares its group with a splitting
\* row outside the averaging groups.
C11_Witness ==
  \E b \in GroupedBuilds :
    /\ ~oob[b].OOBhonest /\ ~oob[b].doubleOOB
    /\ outputOOBIndex[b] # <<>>
    /\ \E r \in Range(oob[b].called) \ Range(outputOOBIndex[b]) :
         /\ r \notin Range(tree[b].splittingSampleIndex)
         /\ r \notin Range(tree[b].averagingSampleIndex)
         /\ trainingData.groups[r] \notin
              groupsOf(trainingData.groups, tree[b].averagingSampleIndex)

\* A configuration the constructor must reject.
Misconfigured(a, df) ==
  \/ a.minNodeSizeAvg = 0 \/ a.minNodeSizeSpt = 0
  \/ a.minNodeSizeToSplitSpt = 0 \/ a.minNodeSizeToSplitAvg = 0
  \/ a.minNodeSizeToSplitSpt > Len(a.splittingSampleIndex)
  \/ a.minNodeSizeToSplitAvg > Len(a.averagingSampleIndex)
  \/ a.maxDepth = 0
  \/ (a.minSplitGain # RInt(0) /\ ~a.linear)
  \/ a.mtry = 0
  \/ a.mtry > getNumColumns(df)

\* C12: a constructor called with a minimum node size of 0, a
\* minNodeSizeToSplit above the size of its index set, maxDepth 0, a
\* minSplitGain without linear, mtry 0 or mtry above the number of columns
\* fails with an error before any partitioning: no node is created, no node id
\* is assigned, and the generator it was handed is where it was.
C12_MisconfiguredFailsEarly ==
  \A b \in Builds : (pc[b] \notin {"off", "new"} /\ Misconfigured(args, trainingData)) =>
    /\ pc[b] = "error"
    /\ error[b] # ""
    /\ tree[b] = EmptyTree
    /\ calls[b] = <<>>
    /\ stack[b] = <<>>
    /\ rng[b] = RngSeed(args.seed + 1)

\* A constructor call has failed on mtry above the number of columns alone.
C12_Witness ==
  \E b \in Builds :
    /\ pc[b] = "error"
    /\ args.mtry > getNumColumns(trainingData)
    /\ args.maxDepth > 0 /\ args.minNodeSizeAvg > 0
    /\ error[b] = "mtry cannot exceed total amount of features"

\* C13 as stated: a constructor called with an empty averaging or splitting
\* index vector, every minimum node size at least 1 and every other argument
\* valid, fails with the empty-index-set error and no other.
C13_EmptyIndexSetError ==
  \A b \in Builds :
    ( /\ pc[b] \notin {"off", "new"}
      /\ args.averagingSampleIndex = <<>> \/ args.splittingSampleIndex = <<>>
      /\ args.minNodeSizeAvg >= 1 /\ args.minNodeSizeSpt >= 1
      /\ args.minNodeSizeToSplitAvg >= 1 /\ args.minNodeSizeToSplitSpt >= 1
      /\ args.maxDepth >= 1 /\ (args.minSplitGain = RInt(0) \/ args.linear)
      /\ args.mtry \in 1..getNumColumns(trainingData) )
    => /\ pc[b] = "error"
       /\ error[b] \in {"averagingSampleIndex size cannot be set to 0.",
                        "splittingSampleIndex size cannot be set to 0."}

\* The accessors that are operations of a leaf.
LeafAccessors ==
  {"getWeight", "getAveragingIndex", "getSplittingIndex", "getAverageCount",
   "getSplitCount"}

\* C14 as stated: a node is a leaf or a split and not both; on a leaf the
\* accessors of a split (split feature, split value, left split value, any
\* child) fail; on a split node the leaf operations (weight, averaging and
\* splitting index set, averaging and splitting count) fail.
C14_OtherKindFails ==
  \A b \in Builds : pc[b] = "accessed" =>
    LET node == tree[b].root[access[b].node]
    IN  /\ node.kind \in {"leaf", "split"}
        /\ (is_leaf(node) /\ access[b].accessor \in DOMAIN SplitAccessors)
             => access[b].thrown # ""
        /\ (~is_leaf(node) /\ access[b].accessor \in LeafAccessors)
             => access[b].thrown # ""

\* The positions of the leaves of the subtree at position p.
RECURSIVE LeavesUnder(_, _)
LeavesUnder(root, p) ==
  IF root[p].kind = "leaf" THEN {p}
  ELSE LeavesUnder(root, LeftOf(p)) \cup LeavesUnder(root, RightOf(p))

\* At the split at p, the leaf weights of the two subtrees are in the order
\* the constraint of the split feature asks for.
OrderedAcross(root, p, constraint) ==
  \A l \in LeavesUnder(root, LeftOf(p)), r \in LeavesUnder(root, RightOf(p)) :
    IF constraint = 1 THEN RLe(root[l].weight, root[r].weight)
    ELSE RLe(root[r].weight, root[l].weight)

\* C15 as stated: in a tree grown with constraint +1 on a feature, at every
\* split on the feature every leaf weight of the left subtree is at most every
\* leaf weight of the right subtree (at least, for constraint -1), whatever
\* monotoneAvg is and whether or not the averaging set is the splitting set.
C15_LeafWeightsMonotone ==
  \A b \in GrownBuilds : \A p \in DOMAIN tree[b].root :
    (tree[b].root[p].kind = "split"
       /\ trainingData.monotonicConstraints[tree[b].root[p].splitFeature] # 0)
    => OrderedAcross(tree[b].root, p,
                     trainingData.monotonicConstraints[tree[b].root[p].splitFeature])

\* The configuration of scenario S1 but for maxDepth: the ten rows, mtry 1,
\* the four minimum node sizes 1, splitMiddle false, no ridge model.
ScenarioS1(maxDepth) ==
  /\ trainingData = TenRowFrame
  /\ args.mtry = 1 /\ args.maxDepth = maxDepth
  /\ args.minNodeSizeSpt = 1 /\ args.minNodeSizeAvg = 1
  /\ args.minNodeSizeToSplitSpt = 1 /\ args.minNodeSizeToSplitAvg = 1
  /\ ~args.splitMiddle /\ ~args.linear
  /\ args.splittingSampleIndex = TenRows /\ args.averagingSampleIndex = TenRows

\* The tree of scenario S1: a root split at 5.5 (11 on the doubled values)
\* with a left leaf of weight 3 and a right leaf of weight 8, and nothing else.
TreeOfS1(root) ==
  /\ DOMAIN root = {Root, LeftOf(Root), RightOf(Root)}
  /\ root[Root].kind = "split"
  /\ root[Root].splitFeature = 0 /\ root[Root].splitValue = 11
  /\ root[LeftOf(Root)].kind = "leaf" /\ root[LeftOf(Root)].weight = RInt(3)
  /\ root[RightOf(Root)].kind = "leaf" /\ root[RightOf(Root)].weight = RInt(8)

SealingRules == {"terminal", "nosplit", "degenerate", "gain"}

\* The positions of build b sealed by one of the rules.
SealedBy(b, rules) == {p \in DOMAIN calls[b] : calls[b][p].sealedBy \in rules}

\* w is the arithmetic mean of the outcomes over the rows of idx, each
\* counted as often as it occurs.
IsMeanOver(w, idx) ==
  /\ idx # <<>>
  /\ w[2] > 0
  /\ w[1] * Len(idx) = w[2] * SeqSum([i \in 1..Len(idx) |-> trainingData.y[idx[i]]])

\* C17: a leaf sealed during growth, by whichever rule, records the sizes of
\* the averaging and splitting sets that reached the node, and its weight is
\* the mean of the outcomes over the averaging set that reached it.
C17_SealedLeafRecordsItsSets ==
  \A b \in StartedBuilds : \A p \in SealedBy(b, SealingRules) :
    /\ tree[b].root[p].kind = "leaf"
    /\ tree[b].root[p].averageCount = Len(calls[b][p].averagingSampleIndex)
    /\ tree[b].root[p].splitCount = Len(calls[b][p].splittingSampleIndex)
    /\ IsMeanOver(tree[b].root[p].weight, calls[b][p].averagingSampleIndex)

\* A leaf was sealed by the terminal test below the root and another leaf
\* by another rule, the latter reached by a splitting set that is not its
\* averaging set.
C17_Witness ==
  \E b \in GrownBuilds :
    /\ SealedBy(b, {"terminal"}) \ {Root} # {}
    /\ \E q \in SealedBy(b, SealingRules \ {"terminal"}) :
         Range(calls[b][q].averagingSampleIndex) # Range(calls[b][q].splittingSampleIndex)

\* The rows of a call, of either set, that are missing on feature f.
MissingRows(c, f) ==
  {r \in Range(c.averagingSampleIndex) \cup Range(c.splittingSampleIndex) :
     isnan(trainingData.x[f][r])}

\* The rows, of either set, that a call received.
RowsOf(c) == Range(c.averagingSampleIndex) \cup Range(c.splittingSampleIndex)

\* The child of p on the side of a default NA direction.
ChildOnSide(p, naDefaultDirection) ==
  IF naDefaultDirection = -1 THEN LeftOf(p) ELSE RightOf(p)

\* C18: in a tree grown with naDirection, every split node stores a default
\* NA direction of -1 or +1, and the observations missing on the split
\* feature that reached the node were routed to the child on that side.
C18_NaDirectionIsTheRoutedSide ==
  \A b \in GrownBuilds :
    args.naDirection =>
      \A p \in KindPositions(tree[b].root, "split") :
        /\ tree[b].root[p].naDefaultDirection \in {-1, 1}
        /\ MissingRows(calls[b][p], tree[b].root[p].splitFeature)
             \subseteq RowsOf(calls[b][ChildOnSide(p, tree[b].root[p].naDefaultDirection)])

\* The step is a prediction on the tree of build b: predict, or
\* getOOBPrediction under any regime.
PredictionStep(b) ==
  \/ outputPrediction'[b]["grown"] # outputPrediction[b]["grown"]
  \/ oob[b].caller # "getOOBPrediction" /\ oob'[b].caller = "getOOBPrediction"

\* C19: prediction is read-only on the tree: a step of predict or of
\* getOOBPrediction, under any of the four OOB regimes, leaves every field of
\* the tree as it was, the averaging and splitting index vectors included.
C19_PredictionWritesNothing ==
  [][\A b \in Builds : PredictionStep(b) => tree'[b] = tree[b]]_vars

\* The trees on which an OOB index computation has been used.
OOBCalls == {b \in Builds : pc[b] = "oobDone"}

\* s is in ascending order; repeated entries are adjacent.
IsAscending(s) == \A i \in 1..(Len(s) - 1) : s[i] <= s[i + 1]

\* Two vectors hold the same multiset of indices.
SameMultiset(s, u) ==
  \A r \in Range(s) \cup Range(u) : Count(s, r) = Count(u, r)

\* Both index vectors of the tree hold what the tree was built with.
KeepsItsIndices(b) ==
  /\ SameMultiset(tree[b].averagingSampleIndex, args.averagingSampleIndex)
  /\ SameMultiset(tree[b].splittingSampleIndex, args.splittingSampleIndex)

\* C20 as stated: after the first use of any of the four OOB index
\* computations both index vectors of the tree are sorted ascending, each
\* holds the multiset it held before, and the result is in ascending order.
C20_Original ==
  \A b \in OOBCalls :
    /\ IsAscending(tree[b].averagingSampleIndex)
    /\ IsAscending(tree[b].splittingSampleIndex)
    /\ KeepsItsIndices(b)
    /\ IsAscending(Appended(b))

\* C20, amended: after the first use of the standard or the double-honest
\* computation both index vectors are sorted ascending, after the first use
\* of the honest or the grouped computation the averaging vector is; each
\* vector holds the multiset it held before, and the result is ascending.
C20_SortedAfterFirstUse ==
  \A b \in OOBCalls :
    /\ IsAscending(tree[b].averagingSampleIndex)
    /\ oob[b].regime \in {"standard", "double"}
         => IsAscending(tree[b].splittingSampleIndex)
    /\ KeepsItsIndices(b)
    /\ IsAscending(Appended(b))

\* An OOB computation was used on a tree built with both index vectors out
\* of order, on an allIndex out of order, and returned more than one row.
C20_Witness ==
  \E b \in OOBCalls :
    /\ ~IsAscending(args.averagingSampleIndex)
    /\ ~IsAscending(args.splittingSampleIndex)
    /\ ~IsAscending(oob[b].called)
    /\ Len(Appended(b)) > 1

\* The builds whose record has been reconstructed.
ReconstructedBuilds ==
  {b \in Builds : pc[b] \in {"reconstructed", "repredicted", "reflattened"}}

\* What a record erased of the vectors: the given numbers of var_ids, of
\* split_vals, of each of the three NA vectors, and of weights.
Erased(reads, var_ids, split_vals, naCounts, weights) ==
  /\ reads.var_ids = var_ids
  /\ reads.split_vals = split_vals
  /\ reads.naLeftCounts = naCounts
  /\ reads.naRightCounts = naCounts
  /\ reads.naDefaultDirections = naCounts
  /\ reads.weights = weights

\* Every vector of the record was consumed to its end, and no read went past
\* the end of a vector.
ConsumedExactly(b) ==
  /\ ~reconstruction[b].pastEnd
  /\ \A v \in RecordVectors : reconstruction[b].remaining[v] = <<>>

\* C21 as stated: a split record consumes one var_id and one split_val, a
\* leaf record two var_ids and one weight, and neither anything else; after
\* the reconstruction every vector is consumed and no read went past an end.
C21_Original ==
  \A b \in ReconstructedBuilds :
    /\ \A p \in DOMAIN rebuilt[b].root :
         IF rebuilt[b].root[p].kind = "split"
         THEN Erased(reconstruction[b].consumed[p], 1, 1, 0, 0)
         ELSE Erased(reconstruction[b].consumed[p], 2, 0, 0, 1)
    /\ ConsumedExactly(b)

\* C21, amended: every record consumes one split_val and one entry of each
\* of the three NA vectors; a split record consumes one var_id besides, a
\* leaf record two var_ids and one weight; after the reconstruction every
\* vector is consumed and no read went past an end.
C21_RecordsConsumed ==
  \A b \in ReconstructedBuilds :
    /\ \A p \in DOMAIN rebuilt[b].root :
         IF rebuilt[b].root[p].kind = "split"
         THEN Erased(reconstruction[b].consumed[p], 1, 1, 1, 0)
         ELSE Erased(reconstruction[b].consumed[p], 2, 1, 1, 1)
    /\ ConsumedExactly(b)

\* A record with two split records at least has been reconstructed.
C21_Witness ==
  \E b \in ReconstructedBuilds :
    /\ Cardinality(KindPositions(rebuilt[b].root, "split")) >= 2
    /\ DOMAIN reconstruction[b].consumed = DOMAIN tree[b].root

\* The positions of build b whose call went past the terminal test and has
\* returned: features were sampled there.
SampledAt(b) == SealedBy(b, {"nosplit", "degenerate", "gain", "split"})

\* C22: at every node not sealed by the terminal test the feature list holds
\* exactly mtry pairwise distinct features, each below the number of feature
\* columns, whatever the weights of the data are (an empty vector included).
C22_SamplesMtryDistinctFeatures ==
  \A b \in StartedBuilds : \A p \in SampledAt(b) :
    /\ Len(calls[b][p].featureList) = tree[b].mtry
    /\ NoRepeats(calls[b][p].featureList)
    /\ \A i \in DOMAIN calls[b][p].featureList :
         calls[b][p].featureList[i] < getNumColumns(trainingData)

\* The kernels without imputation and without a ridge model.
IsCartKernel(k) ==
  k \in {"findBestSplitValueCategorical", "findBestSplitValueNonCategorical"}

IsCategoricalKernel(k) ==
  k \in {"findBestSplitRidgeCategorical", "findBestSplitImputeCategorical",
         "findBestSplitValueCategorical"}

\* C23: one kernel is run on each sampled feature, in the order of the
\* feature list, all of them before the best split is determined: an
\* imputation-aware kernel whenever hasNas, a ridge kernel whenever linear,
\* plain CART otherwise, categorical on a categorical feature only.
C23_KernelByFlags ==
  \A b \in StartedBuilds : \A p \in SampledAt(b) :
    /\ Len(calls[b][p].kernels) = Len(calls[b][p].featureList)
    /\ \A i \in DOMAIN calls[b][p].kernels :
         LET run == calls[b][p].kernels[i]
         IN  /\ run.feature = calls[b][p].featureList[i]
             /\ IsCategoricalKernel(run.kernel) <=> run.feature \in trainingData.catCols
             /\ tree[b].hasNas => IsImputeKernel(run.kernel)
             /\ args.linear => IsRidgeKernel(run.kernel)
             /\ (~tree[b].hasNas /\ ~args.linear) => IsCartKernel(run.kernel)

\* Two fractions are the same number.
SameNumber(a, c) == a[1] * c[2] = c[1] * a[2]

\* x projected into [lo, hi].
Clamp(x, lo, hi) == IF RLt(x, lo) THEN lo ELSE IF RLt(hi, x) THEN hi ELSE x

\* The interval [lower, upper] of a monotone record is the interval [lo, hi].
IsInterval(details, lo, hi) ==
  SameNumber(details.lower_bound, lo) /\ SameNumber(details.upper_bound, hi)

\* The frames of build b below the root with the frames of their parents:
\* the call on a child is made from the call on its parent.
ChildFrames(b) ==
  { [child |-> stack[b][i], parent |-> stack[b][i + 1]] : i \in 1..(Len(stack[b]) - 1) }

\* The m of a split: half the sum of the clamped means of the splitting
\* sets of its two children.
MidMeanOf(b, parent) ==
  LET lo == parent.monotone_details.lower_bound
      hi == parent.monotone_details.upper_bound
  IN  RMul(RAdd(Clamp(partitionMean(trainingData,
                        calls[b][LeftOf(parent.node)].splittingSampleIndex), lo, hi),
                Clamp(partitionMean(trainingData,
                        parent.splittingRightPartitionIndex), lo, hi)),
           Rat(1, 2))

\* The bounds the claim gives a child of a split with constraint c.
BoundsAsClaimed(b, f, c) ==
  LET lo == f.parent.monotone_details.lower_bound
      hi == f.parent.monotone_details.upper_bound
      m == MidMeanOf(b, f.parent)
      isLeft == f.child.node = LeftOf(f.parent.node)
  IN  IF c = 0 THEN IsInterval(f.child.monotone_details, lo, hi)
      ELSE IF (c = 1) = isLeft THEN IsInterval(f.child.monotone_details, lo, m)
      ELSE IsInterval(f.child.monotone_details, m, hi)

\* C24: with parent bounds [lo, hi] and m the mean of the clamped child
\* means, constraint +1 gives the left child [lo, m] and the right [m, hi],
\* -1 the left [m, hi] and the right [lo, m], 0 both [lo, hi]; every record
\* has lower_bound <= upper_bound, and a child's interval lies in its parent's.
C24_BoundUpdate ==
  \A b \in Builds :
    /\ \A i \in DOMAIN stack[b] :
         RLe(stack[b][i].monotone_details.lower_bound,
             stack[b][i].monotone_details.upper_bound)
    /\ \A f \in ChildFrames(b) :
         /\ BoundsAsClaimed(b, f,
              trainingData.monotonicConstraints[f.parent.bestSplitFeature])
         /\ RLe(f.parent.monotone_details.lower_bound,
                f.child.monotone_details.lower_bound)
         /\ RLe(f.child.monotone_details.upper_bound,
                f.parent.monotone_details.upper_bound)

\* The call on a node two levels below the root is under way, with a lower
\* and an upper bound that both come from a split on a constrained feature.
C24_Witness ==
  \E b \in Builds : \E f \in ChildFrames(b) :
    /\ f.parent.node # Root
    /\ ~SameNumber(f.child.monotone_details.lower_bound, RootBounds.lower_bound)
    /\ ~SameNumber(f.child.monotone_details.upper_bound, RootBounds.upper_bound)

\* The direction drawn by a generator fresh from the seed, for averaging
\* partitions of l and r observations: left with probability l / (l + r).
DirectionOf(seed, l, r) ==
  IF RngSeed(seed) * (l + r) < Cardinality(RngStates) * l THEN -1 ELSE 1

\* The split nodes of build b at which no missing value was counted.
SplitsWithoutNas(b) ==
  {p \in KindPositions(tree[b].root, "split") :
     tree[b].root[p].naLeftCount = 0 /\ tree[b].root[p].naRightCount = 0}

\* A node but for its default NA direction.
WithoutDirection(node) == [node EXCEPT !.naDefaultDirection = 0]

\* C25: at a split without counted NAs the randomised direction is a function
\* of the seed of the tree and the sizes of the two averaging partitions; and
\* the generator of the recursion is not advanced by it: two builds that
\* differ in naDirection only sample the same features, run the same kernels,
\* break ties alike and leave their generators in the same state.
C25_RandomisationLeavesGenerator ==
  /\ \A b \in GrownBuilds :
       tree[b].naDirection =>
         \A p \in SplitsWithoutNas(b) :
           tree[b].root[p].naDefaultDirection
             = DirectionOf(tree[b].seed,
                           Len(calls[b][LeftOf(p)].averagingSampleIndex),
                           Len(calls[b][RightOf(p)].averagingSampleIndex))
  /\ (\A b \in Builds : pc[b] = "grown") =>
       /\ calls[1] = calls[2]
       /\ rng[1] = rng[2]
       /\ DOMAIN tree[1].root = DOMAIN tree[2].root
       /\ \A p \in DOMAIN tree[1].root :
            WithoutDirection(tree[1].root[p]) = WithoutDirection(tree[2].root[p])

\* Both builds are grown, with two splits at least, one of them below the
\* root; the build with naDirection drew a direction at random that the
\* other build does not store.
C25_Witness ==
  /\ \A b \in Builds : pc[b] = "grown"
  /\ args.mtry = 1
  /\ \E p \in SplitsWithoutNas(1) \ {Root} :
       tree[1].root[p].naDefaultDirection # tree[2].root[p].naDefaultDirection

\* No sampled feature of the call at p has an admissible split: the best
\* split value of every one of them is NaN.
NoAdmissibleSplitAt(b, p) ==
  isnan(selectBestFeature(trainingData, RootBounds @@ tree[b], args.linear,
                          calls[b][p].featureList,
                          calls[b][p].averagingSampleIndex,
                          calls[b][p].splittingSampleIndex, 0).bestSplitValue)

\* Every node the partitioner was called on is sealed, as a leaf or a split.
AllSealed(b) ==
  /\ DOMAIN calls[b] = DOMAIN tree[b].root
  /\ \A q \in DOMAIN calls[b] :
       calls[b][q].sealedBy # "" /\ tree[b].root[q].kind \in {"leaf", "split"}

\* C26: a node at which no sampled feature has an admissible split is
\* sealed as a leaf holding all observations that reached it, without
\* children and without an error, and the construction goes on: the grown
\* tree has every other node sealed as well.
C26_NoSplitSealsLeaf ==
  \A b \in StartedBuilds : \A p \in SampledAt(b) :
    NoAdmissibleSplitAt(b, p) =>
      /\ calls[b][p].sealedBy = "nosplit"
      /\ tree[b].root[p].kind = "leaf"
      /\ tree[b].root[p].averageCount = Len(calls[b][p].averagingSampleIndex)
      /\ tree[b].root[p].splitCount = Len(calls[b][p].splittingSampleIndex)
      /\ LeftOf(p) \notin DOMAIN tree[b].root
      /\ RightOf(p) \notin DOMAIN tree[b].root
      /\ error[b] = ""
      /\ pc[b] # "error"
      /\ b \in GrownBuilds => AllSealed(b)

\* A left child without an admissible split was sealed as a leaf, and its
\* sibling was sealed after it.
C26_Witness ==
  \E b \in GrownBuilds : \E p \in SealedBy(b, {"nosplit"}) :
    /\ p # Root
    /\ p = LeftOf(p \div 2)
    /\ NoAdmissibleSplitAt(b, p)
    /\ tree[b].root[p + 1].kind = "leaf"
    /\ tree[b].root[p + 1].nodeId > tree[b].root[p].nodeId

\* C27: the guard against an empty partition seals the node as a leaf if and
\* only if at least one of the four partitions is empty, whatever the four
\* sizes.
C27_GuardSealsIffEmpty ==
  sizes.applied =>
    (sizes.sealed <=> \/ sizes.lAvgSize = 0
                      \/ sizes.rAvgSize = 0
                      \/ sizes.lSplSize = 0
                      \/ sizes.rSplSize = 0)

\* The var_id that write_node_info writes first for the node at p of build b.
FirstVarId(b, p) == Head(write_node_info(tree[b].root, p, EmptyTreeInfo).var_ids)

\* C28: every node on which recursivePartition is called has a non-empty
\* averaging set and a non-empty splitting set; every leaf of a grown tree
\* is written with a strictly negative var_id, and the reconstruction of the
\* record reads it as a leaf.
C28_CalledNodesNonEmpty ==
  \A b \in Builds :
    /\ \A p \in DOMAIN calls[b] :
         /\ calls[b][p].averagingSampleIndex # <<>>
         /\ calls[b][p].splittingSampleIndex # <<>>
    /\ b \in GrownBuilds =>
         \A p \in KindPositions(tree[b].root, "leaf") :
           /\ tree[b].root[p].averageCount > 0
           /\ tree[b].root[p].splitCount > 0
           /\ FirstVarId(b, p) < 0
    /\ b \in ReconstructedBuilds =>
         \A p \in KindPositions(tree[b].root, "leaf") :
           /\ p \in DOMAIN rebuilt[b].root
           /\ rebuilt[b].root[p].kind = "leaf"

\* The record of a tree has been reconstructed in which a leaf below a split
\* has one averaging row, and another several splitting rows.
C28_Witness ==
  \E b \in ReconstructedBuilds :
    /\ \E p \in KindPositions(tree[b].root, "leaf") :
         p > Root /\ Len(calls[b][p].averagingSampleIndex) = 1
    /\ \E p \in KindPositions(tree[b].root, "leaf") :
         p > Root /\ Len(calls[b][p].splittingSampleIndex) > 1

\* The calls of getOOBPrediction made.
OOBPredictionCalls ==
  {b \in Builds : pc[b] = "oobDone" /\ oob[b].caller = "getOOBPrediction"}

\* The entries of the OOB set of a call that the place of the output vectors
\* corresponds to: the place is the row, or training_idx lists the row there.
EntriesAt(call, place) ==
  {i \in 1..Len(call.OOBIndex) :
     IF call.training_idx = <<>> THEN call.OOBIndex[i] = place
     ELSE call.training_idx[place + 1] = call.OOBIndex[i]}

\* The call added the tree's prediction and 1 to the count at the places of
\* the OOB rows, and nothing elsewhere.
AddedOnce(call) ==
  /\ DOMAIN call.outputOOBCount = DOMAIN call.countBefore
  /\ DOMAIN call.outputOOBPrediction = DOMAIN call.predictionBefore
  /\ \A place \in DOMAIN call.countBefore :
       IF EntriesAt(call, place) = {}
       THEN /\ call.outputOOBCount[place] = call.countBefore[place]
            /\ call.outputOOBPrediction[place] = call.predictionBefore[place]
       ELSE /\ call.outputOOBCount[place] = call.countBefore[place] + 1
            /\ \E i \in EntriesAt(call, place) :
                 call.outputOOBPrediction[place] =
                   RAdd(call.predictionBefore[place],
                        call.currentTreePrediction[i].outputPrediction)

\* C29 as stated: getOOBPrediction adds the tree's prediction of an OOB row
\* to outputOOBPrediction and exactly 1 to outputOOBCount at the place of
\* every row of the tree's OOB set (the row itself, or where training_idx
\* lists it), and leaves every other entry of the two vectors as it was.
C29_Original == \A b \in OOBPredictionCalls : AddedOnce(oob[b])

\* C29: called without training_idx or with a training_idx without repeated
\* entries, getOOBPrediction adds the tree's prediction of an OOB row to
\* outputOOBPrediction and exactly 1 to outputOOBCount at the place of every
\* row of the tree's OOB set, and leaves every other entry as it was.
C29_AddsOnceAtOOBPlaces ==
  \A b \in OOBPredictionCalls :
    NoRepeats(oob[b].training_idx) => AddedOnce(oob[b])

\* A call with a training_idx of three rows in descending order, of which
\* two are OOB, on output vectors to which an earlier tree has added; the
\* tree's prediction is not 0.
C29_Witness ==
  \E b \in OOBPredictionCalls :
    /\ NoRepeats(oob[b].training_idx)
    /\ Len(oob[b].training_idx) = 3
    /\ Len(oob[b].OOBIndex) = 2
    /\ oob[b].countBefore[0] = 1
    /\ oob[b].currentTreePrediction[1].outputPrediction # RInt(0)

\* The number of features of positive weight.
PositiveWeights(weights) == Cardinality({i \in DOMAIN weights : weights[i] > 0})

\* At least mtry features have a positive weight, at every depth.
EnoughPositiveWeights ==
  /\ PositiveWeights(trainingData.featureWeights) >= args.mtry
  /\ PositiveWeights(trainingData.deepFeatureWeights) >= args.mtry

\* C30: the growth of a tree terminates: when the constructor is called with
\* arguments it accepts on data in which at least mtry features have a
\* positive sampling weight, the construction never stops short of its end:
\* in every state the thread has a step to take, or the tree is grown with
\* every node the partitioner was called on sealed as a leaf or as a split.
\* (No behaviour is infinite: a step seals a node or calls the partitioner on
\* a new one, and the positions of the nodes are bounded by maxDepth.)
C30_GrowthTerminates ==
  EnoughPositiveWeights =>
    \/ Running
    \/ pc[1] = "grown" /\ AllSealed(1)

====
